---- MODULE Spec2Model ----
(***************************************************************************)
(* State-machine model of src/app/actions.ts: the text matcher             *)
(* (findTextPosition) and the PDF regeneration pipeline                    *)
(* (generateModifiedPDF with its fallback generateSimpleModifiedPDF).      *)
(*                                                                         *)
(* A JavaScript string is modelled as a sequence of one-character strings, *)
(* so that toLowerCase, trim, split and includes are computed, character   *)
(* by character, the way the runtime computes them.                        *)
(***************************************************************************)
EXTENDS Integers, Sequences, FiniteSets, TLC

VARIABLES
  \* ---- findTextPosition call (src/app/actions.ts:411-465)
  searchText,     \* argument searchText
  positions,      \* argument positions: sequence of TextPosition records
  mpc,            \* "call" before the call, "done" after it returned
  matchTier,      \* which return statement was taken: 1..4, 0 for `return null`
  matchResult,    \* the returned TextPosition, as <<p>>, or null
  \* ---- extractTextWithPositions and the position mapping of
  \* ---- optimizeWithKeywords (src/app/actions.ts:484-506, 156-176)
  extractedText,  \* pdfData.text, the text the spans are estimated from
  rawChange,      \* `change` of line 156: one element of the parsed detailedChanges
  mappedChange,   \* mappedChange of line 157, as <<change>>, null before it is built
  \* ---- generateModifiedPDF call (src/app/actions.ts:257-317)
  originalPdfBuffer,  \* argument: the bytes, as what PDFDocument.load makes of them
  selectedChanges,    \* argument: sequence of DetailedChange records
  originalContent,    \* argument: the text
  glyphWidth,         \* what font.widthOfTextAtSize measures per character
  pc,                 \* the statement generateModifiedPDF is at
  originalPdfDoc,     \* the document loaded at line 264: its pages with the draws made
  changeIdx,          \* the for-of loop of line 268: 1-based index of `change`
  error,              \* the error caught at line 306, as <<message>>
  fallbackCalls,      \* the calls of generateSimpleModifiedPDF made, with their arguments
  fallbackError,      \* the error caught at line 312, as <<message>>
  returned,           \* the document the promise resolved with, as <<doc>>
  thrown,             \* the message of the error the promise rejected with, as <<message>>
  \* ---- generateSimpleModifiedPDF call (src/app/actions.ts:319-409)
  rpc,                \* the statement generateSimpleModifiedPDF is at
  modifiedContent,    \* let modifiedContent of line 331
  replaceIdx,         \* the for-of loop of line 332: 1-based index of `change`
  newPdfDoc,          \* the document created at line 328: its pages with the draws made
  yPosition,          \* let yPosition of line 353, in tenths of a point
  lineIdx,            \* the for-of loop of line 356: 1-based index of `line`
  wordIdx,            \* the for-of loop of line 362: 1-based index of `word`
  currentLine,        \* let currentLine of line 360
  \* ---- optimizeWithKeywords call (src/app/actions.ts:99-255) and the page
  \* ---- state it ends in (src/unnamed/part_001)
  resumeText,         \* argument: the text
  selectedKeywords,   \* argument: sequence of keywords
  textPositions,      \* optional argument, as <<spans>>, null when not passed
  changesResultText,  \* changesResult.text, the answer of the language model
  opc,                \* the statement optimizeWithKeywords or the page is at
  parseTier,          \* where optimizationData was assigned: 1 (line 148), 2 (line 186), 3 (lines 219, 235)
  optimizationData,   \* let optimizationData of line 146, as <<data>>, null before it is assigned
  optimizationResult, \* the page's state optimizationResult, as <<result>>
  selectedChangesState,     \* the page's state selectedChanges
  generateModifiedPDFCall   \* the arguments of the page's call of generateModifiedPDF, as <<arguments>>

matchVars == <<searchText, positions, mpc, matchTier, matchResult,
               extractedText, rawChange, mappedChange>>

pdfVars == <<originalPdfBuffer, selectedChanges, originalContent, glyphWidth, pc,
             originalPdfDoc, changeIdx, error, fallbackCalls, fallbackError,
             returned, thrown>>

reflowVars == <<rpc, modifiedContent, replaceIdx, newPdfDoc, yPosition, lineIdx,
                wordIdx, currentLine>>

optimizeVars == <<resumeText, selectedKeywords, textPositions, changesResultText, opc,
                  parseTier, optimizationData, optimizationResult,
                  selectedChangesState, generateModifiedPDFCall>>

vars == <<matchVars, pdfVars, reflowVars, optimizeVars>>

(***************************************************************************)
(* Strings                                                                 *)
(***************************************************************************)
UpperLetters ==
  <<"A","B","C","D","E","F","G","H","I","J","K","L","M",
    "N","O","P","Q","R","S","T","U","V","W","X","Y","Z">>

LowerLetters ==
  <<"a","b","c","d","e","f","g","h","i","j","k","l","m",
    "n","o","p","q","r","s","t","u","v","w","x","y","z">>

\* String.prototype.toLowerCase on one character
LowerChar(c) ==
  IF \E k \in 1..26 : UpperLetters[k] = c
    THEN LowerLetters[CHOOSE k \in 1..26 : UpperLetters[k] = c]
    ELSE c

\* String.prototype.toLowerCase
toLowerCase(s) == [k \in 1..Len(s) |-> LowerChar(s[k])]

\* the characters matched by \s and stripped by trim()
IsSpace(c) == c \in {" ", "\t", "\n"}

\* String.prototype.trim
trim(s) ==
  IF \A k \in 1..Len(s) : IsSpace(s[k])
    THEN <<>>
    ELSE LET first == CHOOSE k \in 1..Len(s) :
                        ~IsSpace(s[k]) /\ \A j \in 1..(k-1) : IsSpace(s[j])
             last  == CHOOSE k \in 1..Len(s) :
                        ~IsSpace(s[k]) /\ \A j \in (k+1)..Len(s) : IsSpace(s[j])
         IN SubSeq(s, first, last)

\* s.indexOf(t): the 0-based offset of the first occurrence of t in s, or -1
indexOf(s, t) ==
  LET hits == {k \in 0..(Len(s) - Len(t)) : SubSeq(s, k + 1, k + Len(t)) = t}
  IN IF hits = {} THEN -1
     ELSE CHOOSE k \in hits : \A j \in hits : k <= j

\* String.prototype.includes
includes(s, t) == indexOf(s, t) >= 0

\* s.split(/\s+/): the pieces between maximal runs of whitespace; a string
\* that starts (ends) with whitespace yields a leading (trailing) empty piece,
\* and the empty string yields one empty piece.
RECURSIVE SplitFrom(_, _, _)
SplitFrom(s, k, cur) ==
  IF k > Len(s) THEN <<cur>>
  ELSE IF IsSpace(s[k])
    THEN IF k > 1 /\ IsSpace(s[k-1])
           THEN SplitFrom(s, k + 1, cur)
           ELSE <<cur>> \o SplitFrom(s, k + 1, <<>>)
    ELSE SplitFrom(s, k + 1, Append(cur, s[k]))

splitWhitespace(s) == SplitFrom(s, 1, <<>>)

\* s.split(sep) for a one-character separator: the pieces between the
\* separators, empty pieces kept
RECURSIVE split(_, _)
split(s, sep) ==
  LET k == indexOf(s, <<sep>>)
  IN IF k < 0 THEN <<s>>
     ELSE <<SubSeq(s, 1, k)>> \o split(SubSeq(s, k + 2, Len(s)), sep)

\* GetSubstitution of String.prototype.replace for a string pattern: in the
\* replacement, $$ is a dollar, $& the matched text, $` the text before the
\* match and $' the text after it; any other character stands for itself
RECURSIVE GetSubstitution(_, _, _, _, _)
GetSubstitution(replacement, k, matched, before, after) ==
  IF k > Len(replacement) THEN <<>>
  ELSE IF replacement[k] = "$" /\ k < Len(replacement)
            /\ replacement[k + 1] \in {"$", "&", "`", "'"}
    THEN (CASE replacement[k + 1] = "$" -> <<"$">>
            [] replacement[k + 1] = "&" -> matched
            [] replacement[k + 1] = "`" -> before
            [] replacement[k + 1] = "'" -> after)
         \o GetSubstitution(replacement, k + 2, matched, before, after)
    ELSE <<replacement[k]>> \o GetSubstitution(replacement, k + 1, matched, before, after)

\* mutant of replace: every occurrence is replaced (replaceAll), the scan
\* going on after each replacement
RECURSIVE replaceEveryOccurrence(_, _, _)
replaceEveryOccurrence(content, pattern, replacement) ==
  LET at == indexOf(content, pattern)
  IN IF at < 0 \/ pattern = <<>> THEN content
     ELSE SubSeq(content, 1, at) \o replacement
          \o replaceEveryOccurrence(SubSeq(content, at + Len(pattern) + 1, Len(content)),
                                    pattern, replacement)

\* content.replace(pattern, replacement) with string arguments: the first
\* occurrence only, the content unchanged when the pattern does not occur
replace(content, pattern, replacement) ==
  LET at == indexOf(content, pattern)
  IN IF at < 0 THEN content
     ELSE LET before == SubSeq(content, 1, at)
              after == SubSeq(content, at + Len(pattern) + 1, Len(content))
          IN before \o GetSubstitution(replacement, 1, pattern, before, after) \o after

\* Math.ceil(n * num / den) for the non-negative integers the code passes
\* (n * 0.6 and n * 0.5 are exact in double precision for every count below 200)
Ceil(num, den) == (num + den - 1) \div den

(***************************************************************************)
(* TextPosition (src/app/actions.ts:8-17) and the optional result          *)
(***************************************************************************)
TextPosition(text, x, y, width, pageIndex) ==
  [x |-> x, y |-> y, width |-> width, height |-> 14, fontName |-> "Helvetica",
   fontSize |-> 12, text |-> text, pageIndex |-> pageIndex]

\* `TextPosition | null`: the empty sequence is null, <<p>> is the position p
null == <<>>

(***************************************************************************)
(* findTextPosition (src/app/actions.ts:411-465)                           *)
(***************************************************************************)
\* line 412
cleanSearchTextOf(text) == toLowerCase(trim(text))

\* mutant of ExactLoop: the last position containing the search text
RECURSIVE ExactLoopLast(_, _, _)
ExactLoopLast(clean, poss, k) ==
  IF k > Len(poss) THEN 0
  ELSE LET later == ExactLoopLast(clean, poss, k + 1)
       IN IF later > 0 THEN later
          ELSE IF includes(toLowerCase(poss[k].text), clean) THEN k ELSE 0

\* lines 415-419: index of the first position whose lowercased text contains
\* the cleaned search text, 0 when the loop ends without returning
RECURSIVE ExactLoop(_, _, _)
ExactLoop(clean, poss, k) ==
  IF k > Len(poss) THEN 0
  ELSE IF includes(toLowerCase(poss[k].text), clean) THEN k
  ELSE ExactLoop(clean, poss, k + 1)

\* mutant of PartialTest: the threshold counts only the tokens longer than 2
PartialTestLongTokens(clean, pos) ==
  LET cleanPosText == toLowerCase(pos.text)
  IN /\ Len(cleanPosText) > 10
     /\ Len(clean) > 5
     /\ LET words == SelectSeq(splitWhitespace(clean), LAMBDA w : Len(w) > 2)
            matchedWords == SelectSeq(words, LAMBDA w : includes(cleanPosText, w))
        IN Len(matchedWords) >= Ceil(Len(words) * 6, 10)

\* lines 423-433: the test of the partial-substring loop on one position
PartialTest(clean, pos) ==
  LET cleanPosText == toLowerCase(pos.text)
  IN /\ Len(cleanPosText) > 10
     /\ Len(clean) > 5
     /\ LET words == splitWhitespace(clean)
            matchedWords ==
              SelectSeq(words, LAMBDA w : Len(w) > 2 /\ includes(cleanPosText, w))
        IN Len(matchedWords) >= Ceil(Len(words) * 6, 10)

\* lines 422-435
RECURSIVE PartialLoop(_, _, _)
PartialLoop(clean, poss, k) ==
  IF k > Len(poss) THEN 0
  ELSE IF PartialTest(clean, poss[k]) THEN k
  ELSE PartialLoop(clean, poss, k + 1)

\* line 438
searchWordsOf(clean) == SelectSeq(splitWhitespace(clean), LAMBDA w : Len(w) > 2)

\* lines 441-444: the test of the adjacent loop on positions[i], positions[i+1]
\* (k is the 1-based index of the first position of the pair)
AdjacentTest(searchWords, poss, k) ==
  LET combinedText == toLowerCase(poss[k].text \o <<" ">> \o poss[k + 1].text)
      matchedWords == SelectSeq(searchWords, LAMBDA w : includes(combinedText, w))
  IN Len(matchedWords) >= Ceil(Len(searchWords) * 5, 10)

\* mutant of AdjacentLoop: the pairs are scanned from the last to the first
RECURSIVE AdjacentLoopFromEnd(_, _, _)
AdjacentLoopFromEnd(searchWords, poss, k) ==
  IF k > Len(poss) - 1 THEN 0
  ELSE LET later == AdjacentLoopFromEnd(searchWords, poss, k + 1)
       IN IF later > 0 THEN later
          ELSE IF AdjacentTest(searchWords, poss, k) THEN k ELSE 0

\* lines 440-451
RECURSIVE AdjacentLoop(_, _, _)
AdjacentLoop(searchWords, poss, k) ==
  IF k > Len(poss) - 1 THEN 0
  ELSE IF AdjacentTest(searchWords, poss, k) THEN k
  ELSE AdjacentLoop(searchWords, poss, k + 1)

\* mutant of CombinedPosition: the two widths are added
CombinedPositionSumWidths(poss, k) ==
  [poss[k] EXCEPT !.width = poss[k].width + poss[k + 1].width]

\* lines 446-449: the first position of the pair with the width extended
CombinedPosition(poss, k) ==
  [poss[k] EXCEPT !.width = (poss[k + 1].x + poss[k + 1].width) - poss[k].x]

\* line 455
significantWordsOf(searchWords) == SelectSeq(searchWords, LAMBDA w : Len(w) > 4)

\* lines 456-462: outer loop over the significant words, inner loop over the
\* positions; the index of the position returned, 0 when both loops end
RECURSIVE WordPositionLoop(_, _, _)
WordPositionLoop(word, poss, k) ==
  IF k > Len(poss) THEN 0
  ELSE IF includes(toLowerCase(poss[k].text), word) THEN k
  ELSE WordPositionLoop(word, poss, k + 1)

\* mutant of SignificantLoop: the positions are the outer loop, so the earliest
\* position containing any significant word is returned
RECURSIVE SignificantLoopSpanFirst(_, _, _)
SignificantLoopSpanFirst(significantWords, poss, k) ==
  IF k > Len(poss) THEN 0
  ELSE IF \E n \in 1..Len(significantWords) :
            includes(toLowerCase(poss[k].text), significantWords[n])
    THEN k
  ELSE SignificantLoopSpanFirst(significantWords, poss, k + 1)

SignificantLoopPositionsOuter(significantWords, poss) ==
  SignificantLoopSpanFirst(significantWords, poss, 1)

RECURSIVE SignificantLoop(_, _)
SignificantLoop(significantWords, poss) ==
  IF significantWords = <<>> THEN 0
  ELSE LET k == WordPositionLoop(Head(significantWords), poss, 1)
       IN IF k > 0 THEN k ELSE SignificantLoop(Tail(significantWords), poss)

\* mutant of findTextPosition: when no tier matches, the first span is
\* returned instead of null
findTextPositionFirstSpanDefault(text, poss) ==
  LET cleanSearchText == cleanSearchTextOf(text)
      exact == ExactLoop(cleanSearchText, poss, 1)
      partial == PartialLoop(cleanSearchText, poss, 1)
      searchWords == searchWordsOf(cleanSearchText)
      adjacent == IF Len(searchWords) > 1 THEN AdjacentLoop(searchWords, poss, 1) ELSE 0
      significant == SignificantLoop(significantWordsOf(searchWords), poss)
  IN IF exact > 0 THEN [tier |-> 1, value |-> <<poss[exact]>>]
     ELSE IF partial > 0 THEN [tier |-> 2, value |-> <<poss[partial]>>]
     ELSE IF adjacent > 0 THEN [tier |-> 3, value |-> <<CombinedPosition(poss, adjacent)>>]
     ELSE IF significant > 0 THEN [tier |-> 4, value |-> <<poss[significant]>>]
     ELSE IF Len(poss) > 0 THEN [tier |-> 4, value |-> <<poss[1]>>]
     ELSE [tier |-> 0, value |-> null]

\* mutant of findTextPosition: the adjacent-pair tier is tried before the
\* containment tier
findTextPositionAdjacentFirst(text, poss) ==
  LET cleanSearchText == cleanSearchTextOf(text)
      exact == ExactLoop(cleanSearchText, poss, 1)
      partial == PartialLoop(cleanSearchText, poss, 1)
      searchWords == searchWordsOf(cleanSearchText)
      adjacent == IF Len(searchWords) > 1 THEN AdjacentLoop(searchWords, poss, 1) ELSE 0
      significant == SignificantLoop(significantWordsOf(searchWords), poss)
  IN IF adjacent > 0 THEN [tier |-> 3, value |-> <<CombinedPosition(poss, adjacent)>>]
     ELSE IF exact > 0 THEN [tier |-> 1, value |-> <<poss[exact]>>]
     ELSE IF partial > 0 THEN [tier |-> 2, value |-> <<poss[partial]>>]
     ELSE IF significant > 0 THEN [tier |-> 4, value |-> <<poss[significant]>>]
     ELSE [tier |-> 0, value |-> null]

\* the whole function: the return statement taken (tier) and the value returned
findTextPosition(text, poss) ==
  LET cleanSearchText == cleanSearchTextOf(text)
      exact == ExactLoop(cleanSearchText, poss, 1)
      partial == PartialLoop(cleanSearchText, poss, 1)
      searchWords == searchWordsOf(cleanSearchText)
      adjacent == IF Len(searchWords) > 1 THEN AdjacentLoop(searchWords, poss, 1) ELSE 0
      significant == SignificantLoop(significantWordsOf(searchWords), poss)
  IN IF exact > 0 THEN [tier |-> 1, value |-> <<poss[exact]>>]
     ELSE IF partial > 0 THEN [tier |-> 2, value |-> <<poss[partial]>>]
     ELSE IF adjacent > 0 THEN [tier |-> 3, value |-> <<CombinedPosition(poss, adjacent)>>]
     ELSE IF significant > 0 THEN [tier |-> 4, value |-> <<poss[significant]>>]
     ELSE [tier |-> 0, value |-> null]

(***************************************************************************)
(* Inputs of the matcher: a pool of span texts and of search texts         *)
(***************************************************************************)
MaxSpans == 3

\* span texts: a line longer than 10 characters and two words of it
LedTheCross == <<"L","e","d"," ","t","h","e"," ","c","r","o","s","s">>
Cross == <<"c","r","o","s","s">>
Functional == <<"f","u","n","c","t","i","o","n","a","l">>

SpanTexts == {LedTheCross, Cross, Functional}

\* search texts: every span text verbatim, and fragments that differ from the
\* span texts in case, whitespace, short tokens and tokens found nowhere
LedCrossFunctionalTeams ==
  <<"l","e","d"," ","c","r","o","s","s"," ","f","u","n","c","t","i","o","n","a","l"," ","t","e","a","m","s">>
LedTheTeam == <<"l","e","d"," ","t","h","e"," ","t","e","a","m">>
GoToLed == <<"g","o"," ","t","o"," ","l","e","d">>
PaddedCross == <<" ","C","r","o","s","s","\t">>
GoCross == <<"g","o"," "," ","c","r","o","s","s">>
FunctionalCrossEffortWasBig ==
  <<"f","u","n","c","t","i","o","n","a","l"," ","c","r","o","s","s","\n",
    "e","f","f","o","r","t"," ","w","a","s"," ","b","i","g">>
Blank == <<" "," ">>

SearchTexts ==
  SpanTexts \cup
  {LedCrossFunctionalTeams, LedTheTeam, GoToLed, PaddedCross, GoCross,
   FunctionalCrossEffortWasBig, Blank}

SpanXs == {50, 92}

\* a span at slot k of the sequence: line k of the page, estimated width
SpanAt(k, text, x) == TextPosition(text, x, 750 - 14 * (k - 1), 6 * Len(text), 0)

SpanSeqs ==
  UNION { { [k \in 1..n |-> SpanAt(k, f[k][1], f[k][2])] :
            f \in [1..n -> SpanTexts \X SpanXs] } : n \in 0..MaxSpans }

(***************************************************************************)
(* The matcher as a state machine: one call on inputs drawn from the pools *)
(***************************************************************************)
\* generateSimpleModifiedPDF not called
ReflowIdle ==
  /\ rpc = "idle"
  /\ modifiedContent = <<>>
  /\ replaceIdx = 0
  /\ newPdfDoc = <<>>
  /\ yPosition = 0
  /\ lineIdx = 0
  /\ wordIdx = 0
  /\ currentLine = <<>>

\* optimizeWithKeywords not called
OptimizeIdle ==
  /\ resumeText = <<>>
  /\ selectedKeywords = <<>>
  /\ textPositions = null
  /\ changesResultText = <<>>
  /\ opc = "idle"
  /\ parseTier = 0
  /\ optimizationData = null
  /\ optimizationResult = null
  /\ selectedChangesState = <<>>
  /\ generateModifiedPDFCall = null

\* generateModifiedPDF not called
PdfIdle ==
  /\ originalPdfBuffer = [loadable |-> FALSE, pages |-> <<>>]
  /\ selectedChanges = <<>>
  /\ originalContent = <<>>
  /\ glyphWidth = 0
  /\ pc = "idle"
  /\ originalPdfDoc = <<>>
  /\ changeIdx = 0
  /\ error = <<>>
  /\ fallbackCalls = <<>>
  /\ fallbackError = <<>>
  /\ returned = <<>>
  /\ thrown = <<>>

MatchInit ==
  /\ OptimizeIdle
  /\ PdfIdle
  /\ ReflowIdle
  /\ extractedText = <<>>
  /\ rawChange = <<>>
  /\ mappedChange = <<>>
  /\ searchText \in SearchTexts
  /\ positions \in SpanSeqs
  /\ mpc = "call"
  /\ matchTier = 0
  /\ matchResult = null

CallFindTextPosition ==
  /\ mpc = "call"
  /\ LET r == findTextPosition(searchText, positions)
     IN /\ matchTier' = r.tier
        /\ matchResult' = r.value
  /\ mpc' = "done"
  /\ UNCHANGED <<searchText, positions, extractedText, rawChange, mappedChange>>
  /\ UNCHANGED <<pdfVars, reflowVars, optimizeVars>>

MatchNext == CallFindTextPosition

SpecMatch == MatchInit /\ [][MatchNext]_vars

(***************************************************************************)
(* Properties of findTextPosition.  The matcher's tiers are restated here  *)
(* with sets and cardinalities, independently of the loops above.          *)
(***************************************************************************)
MatchDone == mpc = "done"

MinOf(S) == CHOOSE k \in S : \A j \in S : k <= j

\* What a call is about: the trimmed, lowercased search text (clean), its
\* whitespace-separated tokens, and the lowercased span texts (low).
LongIdx(tokens) == {n \in 1..Len(tokens) : Len(tokens[n]) > 2}
SignificantIdx(tokens) == {n \in 1..Len(tokens) : Len(tokens[n]) > 4}

\* the spans matching each tier
ContainIdx(clean, low) == {k \in 1..Len(low) : includes(low[k], clean)}
OverlapCount(tokens, text) ==
  Cardinality({n \in LongIdx(tokens) : includes(text, tokens[n])})
OverlapIdx(clean, tokens, low) ==
  {k \in 1..Len(low) :
     /\ Len(low[k]) > 10
     /\ Len(clean) > 5
     /\ 5 * OverlapCount(tokens, low[k]) >= 3 * Len(tokens)}
PairIdx(tokens, low) ==
  {k \in 1..(Len(low) - 1) :
     /\ Cardinality(LongIdx(tokens)) > 1
     /\ 2 * OverlapCount(tokens, low[k] \o <<" ">> \o low[k + 1])
          >= Cardinality(LongIdx(tokens))}
WordSpanIdx(word, low) == {k \in 1..Len(low) : includes(low[k], word)}
FoundSignificantIdx(tokens, low) ==
  {n \in SignificantIdx(tokens) : WordSpanIdx(tokens[n], low) # {}}

\* C5 (as stated): searching the verbatim text of a span p of the sequence
\* returns that same span p.
C5_ReturnsThatSpan ==
  MatchDone =>
    \A k \in 1..Len(positions) :
      positions[k].text = searchText => matchResult = <<positions[k]>>

\* C5 (amended): searching the verbatim text of a span p returns the earliest
\* span of the sequence whose lowercased text contains the trimmed, lowercased
\* text of p; that span is p or precedes p.
C5_ReturnsEarliestContaining ==
  MatchDone =>
    LET clean == toLowerCase(trim(searchText))
        low == [k \in 1..Len(positions) |-> toLowerCase(positions[k].text)]
        contain == ContainIdx(clean, low)
    IN \A k \in 1..Len(positions) :
         positions[k].text = searchText =>
           /\ matchTier = 1
           /\ MinOf(contain) <= k
           /\ matchResult = <<positions[MinOf(contain)]>>

\* C5 witness: the text of the second span is searched and the first span,
\* a line containing it, is returned instead.
C5_Witness ==
  /\ MatchDone
  /\ Len(positions) >= 2
  /\ positions[2].text = searchText
  /\ positions[1].text # searchText
  /\ matchResult = <<positions[1]>>

OverlapIdxLongCount(clean, tokens, low) ==
  {k \in 1..Len(low) :
     /\ Len(low[k]) > 10
     /\ Len(clean) > 5
     /\ 5 * OverlapCount(tokens, low[k]) >= 3 * Cardinality(LongIdx(tokens))}

\* C7 (as stated): with no containing span, the token-overlap tier returns a
\* span exactly when some span is longer than 10 characters, the search text
\* is longer than 5, and at least ceil(0.6 x tokenCount) of the search tokens
\* longer than 2 are substrings of the span, tokenCount counting the search
\* tokens longer than 2.
C7_ThresholdOverLongTokens ==
  MatchDone =>
    LET clean == toLowerCase(trim(searchText))
        tokens == splitWhitespace(clean)
        low == [k \in 1..Len(positions) |-> toLowerCase(positions[k].text)]
    IN ContainIdx(clean, low) = {} =>
         (matchTier = 2 <=> OverlapIdxLongCount(clean, tokens, low) # {})

\* C7 (amended): the same, tokenCount counting every whitespace-separated
\* token of the trimmed, lowercased search text, the tokens of 1 or 2
\* characters included; the span returned is the earliest such span.
C7_ThresholdOverAllTokens ==
  MatchDone =>
    LET clean == toLowerCase(trim(searchText))
        tokens == splitWhitespace(clean)
        low == [k \in 1..Len(positions) |-> toLowerCase(positions[k].text)]
        overlap == OverlapIdx(clean, tokens, low)
    IN ContainIdx(clean, low) = {} =>
         /\ matchTier = 2 <=> overlap # {}
         /\ matchTier = 2 => matchResult = <<positions[MinOf(overlap)]>>

\* C7 witness: the token-overlap tier returns a span for a search text that
\* no span contains, two of its three tokens being substrings of the span.
C7_Witness ==
  /\ MatchDone
  /\ matchTier = 2
  /\ searchText = LedTheTeam
  /\ Len(matchResult) = 1
  /\ matchResult[1].text = LedTheCross

\* C8: the adjacent-pair tier is reached only with more than one search token
\* longer than 2 and no match in the earlier tiers; the first consecutive pair
\* (i, i+1) whose space-joined lowercased texts contain at least
\* ceil(0.5 x tokenCount) of those tokens yields span i with
\* width = span(i+1).x + span(i+1).width - span(i).x and every other field kept.
C8_AdjacentPairResult ==
  MatchDone =>
    LET clean == toLowerCase(trim(searchText))
        tokens == splitWhitespace(clean)
        low == [k \in 1..Len(positions) |-> toLowerCase(positions[k].text)]
        pair == PairIdx(tokens, low)
        earlier == ContainIdx(clean, low) \cup OverlapIdx(clean, tokens, low)
    IN /\ matchTier = 3 <=> (earlier = {} /\ pair # {})
       /\ matchTier = 3 =>
            LET i == MinOf(pair)
                r == matchResult[1]
            IN /\ Cardinality(LongIdx(tokens)) > 1
               /\ Len(matchResult) = 1
               /\ r.width = positions[i + 1].x + positions[i + 1].width - positions[i].x
               /\ r.x = positions[i].x
               /\ r.y = positions[i].y
               /\ r.height = positions[i].height
               /\ r.fontName = positions[i].fontName
               /\ r.fontSize = positions[i].fontSize
               /\ r.text = positions[i].text
               /\ r.pageIndex = positions[i].pageIndex

\* C8 witness: the first pair does not match, the second does, and the two
\* spans of the matching pair start at different x.
C8_Witness ==
  /\ MatchDone
  /\ matchTier = 3
  /\ Len(positions) = 3
  /\ matchResult[1].y = positions[2].y
  /\ positions[3].x < positions[2].x

\* Scenario B: the search text "led cross functional teams" and the spans
\* <<a line containing "led", "cross", "functional">>
ScenarioB ==
  /\ searchText = LedCrossFunctionalTeams
  /\ Len(positions) = 3
  /\ includes(toLowerCase(positions[1].text), <<"l","e","d">>)
  /\ positions[2].text = Cross
  /\ positions[3].text = Functional

\* C9 (as stated): in scenario B the adjacent-pair tier returns a span whose x
\* is the line span's x and whose right edge is that of the "functional" span.
C9_RightEdgeOfFunctional ==
  (MatchDone /\ ScenarioB) =>
    /\ matchTier = 3
    /\ matchResult[1].x = positions[1].x
    /\ matchResult[1].x + matchResult[1].width = positions[3].x + positions[3].width

\* C9 (amended): in scenario B, the line span holding fewer than three of the
\* four search tokens, the adjacent-pair tier returns the line span with its
\* right edge at the right edge of the "cross" span, the second span of the
\* first matching pair.
C9_RightEdgeOfCross ==
  (MatchDone /\ ScenarioB) =>
    LET tokens == splitWhitespace(toLowerCase(trim(searchText)))
    IN OverlapCount(tokens, toLowerCase(positions[1].text)) < 3 =>
         /\ matchTier = 3
         /\ matchResult[1].text = positions[1].text
         /\ matchResult[1].y = positions[1].y
         /\ matchResult[1].x = positions[1].x
         /\ matchResult[1].x + matchResult[1].width = positions[2].x + positions[2].width

\* C9 witness: scenario B has been matched, the line span starting right of
\* the "cross" span.
C9_Witness ==
  /\ MatchDone
  /\ ScenarioB
  /\ matchTier = 3
  /\ positions[2].x < positions[1].x

\* C10: when the containment, token-overlap and adjacent-pair tiers all fail,
\* the search tokens longer than 4 characters decide, in search-text order:
\* the first of them contained in some span returns the earliest span
\* containing it; if none is contained in any span (or there is no span) the
\* result is null.
C10_SignificantWordResult ==
  MatchDone =>
    LET clean == toLowerCase(trim(searchText))
        tokens == splitWhitespace(clean)
        low == [k \in 1..Len(positions) |-> toLowerCase(positions[k].text)]
        earlier == ContainIdx(clean, low) \cup OverlapIdx(clean, tokens, low)
                     \cup PairIdx(tokens, low)
        found == FoundSignificantIdx(tokens, low)
    IN earlier = {} =>
         IF found = {}
           THEN matchTier = 0 /\ matchResult = null
           ELSE /\ matchTier = 4
                /\ matchResult =
                     <<positions[MinOf(WordSpanIdx(tokens[MinOf(found)], low))]>>

\* C10 witness: the first significant token is found only in the second span
\* and that span is returned, although the first span contains a later
\* significant token.
C10_Witness ==
  /\ MatchDone
  /\ matchTier = 4
  /\ searchText = FunctionalCrossEffortWasBig
  /\ Len(positions) >= 2
  /\ positions[1].text = Cross
  /\ matchResult = <<positions[2]>>

(***************************************************************************)
(* estimateTextPositions (src/app/actions.ts:508-557)                      *)
(***************************************************************************)
estimateTopY == 750
estimateLineHeight == 14
estimateMargin == 50
estimateGlyphWidth == 6
estimatePageContentHeight == 700

\* mutant of wordSpans: every word gets a span, however short
RECURSIVE wordSpansEveryWord(_, _, _, _)
wordSpansEveryWord(words, currentX, currentY, pageIndex) ==
  IF words = <<>> THEN <<>>
  ELSE LET word == Head(words)
       IN <<TextPosition(word, currentX, currentY,
                         Len(word) * estimateGlyphWidth, pageIndex)>>
          \o wordSpansEveryWord(Tail(words),
                                currentX + Len(word) * estimateGlyphWidth + estimateGlyphWidth,
                                currentY, pageIndex)

\* lines 537-552: words.forEach, currentX advancing after each word emitted
RECURSIVE wordSpans(_, _, _, _)
wordSpans(words, currentX, currentY, pageIndex) ==
  IF words = <<>> THEN <<>>
  ELSE LET word == Head(words)
       IN IF Len(word) > 2
            THEN <<TextPosition(word, currentX, currentY,
                                Len(word) * estimateGlyphWidth, pageIndex)>>
                 \o wordSpans(Tail(words),
                              currentX + Len(word) * estimateGlyphWidth + estimateGlyphWidth,
                              currentY, pageIndex)
            ELSE wordSpans(Tail(words), currentX, currentY, pageIndex)

\* mutant of lineSpans: currentY moves up the page from line to line
RECURSIVE lineSpansUpward(_, _, _)
lineSpansUpward(lines, lineIndex, currentY) ==
  IF lines = <<>> THEN <<>>
  ELSE LET line == Head(lines)
           pageIndex == (lineIndex * estimateLineHeight) \div estimatePageContentHeight
           spans ==
             IF trim(line) # <<>>
               THEN <<TextPosition(trim(line), estimateMargin, currentY,
                                   Len(line) * estimateGlyphWidth, pageIndex)>>
                    \o wordSpans(splitWhitespace(trim(line)), estimateMargin,
                                 currentY, pageIndex)
               ELSE <<>>
       IN spans \o lineSpansUpward(Tail(lines), lineIndex + 1,
                                   currentY + estimateLineHeight)

\* lines 516-554: lines.forEach; lineIndex is the 0-based index of the line
RECURSIVE lineSpans(_, _, _)
lineSpans(lines, lineIndex, currentY) ==
  IF lines = <<>> THEN <<>>
  ELSE LET line == Head(lines)
           pageIndex == (lineIndex * estimateLineHeight) \div estimatePageContentHeight
           spans ==
             IF trim(line) # <<>>
               THEN <<TextPosition(trim(line), estimateMargin, currentY,
                                   Len(line) * estimateGlyphWidth, pageIndex)>>
                    \o wordSpans(splitWhitespace(trim(line)), estimateMargin,
                                 currentY, pageIndex)
               ELSE <<>>
       IN spans \o lineSpans(Tail(lines), lineIndex + 1, currentY - estimateLineHeight)

estimateTextPositions(content) == lineSpans(split(content, "\n"), 0, estimateTopY)

(***************************************************************************)
(* The position mapping of optimizeWithKeywords (src/app/actions.ts:       *)
(* 156-176) for one change of the payload, on the spans extractKeywords    *)
(* returned for the extracted text (lines 52, 95, 484-496)                 *)
(***************************************************************************)
LedTheCrossFunctionalTeams ==
  <<"L","e","d"," ","t","h","e"," ","c","r","o","s","s","\n",
    "f","u","n","c","t","i","o","n","a","l"," ","t","e","a","m","s">>
GoCrossBlankFunctional ==
  <<" "," ","g","o"," ","c","r","o","s","s","\n","\n",
    "f","u","n","c","t","i","o","n","a","l">>
SqlWeb == <<"s","q","l"," ","w","e","b">>

LedTheCrossSql ==
  <<"L","e","d"," ","t","h","e"," ","c","r","o","s","s","\n","s","q","l">>
SqlJava == <<"s","q","l"," ","j","a","v","a">>

\* a resume of ResumeParagraphs one-line paragraphs "sql web", each followed by
\* a blank line: long enough to pass the first 700 points of estimated page
\* content
ResumeParagraphs == 28

RECURSIVE RepeatLines(_, _)
RepeatLines(line, n) ==
  IF n <= 1 THEN line ELSE line \o <<"\n">> \o RepeatLines(line, n - 1)

LongResume == RepeatLines(SqlWeb \o <<"\n">>, ResumeParagraphs)

\* pdfData.text of the uploaded resume
ExtractedTexts ==
  {LedTheCrossFunctionalTeams, GoCrossBlankFunctional, SqlWeb, LedTheCrossSql,
   LongResume, <<>>}

\* change.originalText of the payload; the empty text stands for a missing one
OriginalTexts == (SearchTexts \ {Blank}) \cup {<<>>, SqlJava}

\* a position the payload itself carries on the change (JSON of any shape)
PayloadPosition == TextPosition(<<"x">>, 1, 1, 1, 0)

RawChanges ==
  { [originalText |-> t, position |-> p] :
      t \in OriginalTexts, p \in {null, <<PayloadPosition>>} }

LocateInit ==
  /\ OptimizeIdle
  /\ PdfIdle
  /\ ReflowIdle
  /\ extractedText \in ExtractedTexts
  /\ rawChange \in RawChanges
  /\ mappedChange = <<>>
  /\ searchText = <<>>
  /\ positions = <<>>
  /\ mpc = "extract"
  /\ matchTier = 0
  /\ matchResult = null

\* lines 484-496: extractTextWithPositions estimates the spans of the text
ExtractTextWithPositions ==
  /\ mpc = "extract"
  /\ positions' = estimateTextPositions(extractedText)
  /\ mpc' = "map"
  /\ UNCHANGED <<searchText, matchTier, matchResult, extractedText, rawChange, mappedChange>>
  /\ UNCHANGED <<pdfVars, reflowVars, optimizeVars>>

\* lines 157-168: mappedChange is built, the spread of `change` last, and the
\* matcher is called when textPositions was passed and originalText is not
\* empty (page.tsx passes no textPositions, another caller may)
MapChange ==
  /\ mpc = "map"
  /\ mappedChange' = <<[originalText |-> rawChange.originalText,
                        position |-> rawChange.position]>>
  /\ \E textPositionsPassed \in BOOLEAN :
       IF textPositionsPassed /\ rawChange.originalText # <<>>
         THEN mpc' = "call" /\ searchText' = rawChange.originalText
         ELSE mpc' = "mapped" /\ searchText' = searchText
  /\ UNCHANGED <<positions, matchTier, matchResult, extractedText, rawChange>>
  /\ UNCHANGED <<pdfVars, reflowVars, optimizeVars>>

\* lines 170-175: the position found is stored on mappedChange
AssignPosition ==
  /\ mpc = "done"
  /\ mappedChange' = IF matchResult # null
                       THEN <<[mappedChange[1] EXCEPT !.position = matchResult]>>
                       ELSE mappedChange
  /\ mpc' = "mapped"
  /\ UNCHANGED <<searchText, positions, matchTier, matchResult, extractedText, rawChange>>
  /\ UNCHANGED <<pdfVars, reflowVars, optimizeVars>>

LocateNext ==
  \/ ExtractTextWithPositions
  \/ MapChange
  \/ CallFindTextPosition
  \/ AssignPosition

SpecLocate == LocateInit /\ [][LocateNext]_vars

(***************************************************************************)
(* Properties of the matcher on estimated spans                            *)
(***************************************************************************)
\* the matcher has been called on the spans estimated from extractedText
Located == mpc \in {"done", "mapped"} /\ searchText # <<>>

\* the lowercased, trimmed lines of a text
LowLinesOf(content) ==
  LET lines == split(content, "\n")
  IN {toLowerCase(trim(lines[n])) : n \in 1..Len(lines)}

\* C11 (as stated): if the change's originalText is not a substring of the
\* extracted text the spans were estimated from, findTextPosition returns
\* nothing for it and the change is left without a position.
C11_AbsentTextGetsNoPosition ==
  (Located /\ ~includes(extractedText, rawChange.originalText)) =>
    /\ matchResult = null
    /\ mpc = "mapped" => mappedChange[1].position = null

\* C11 (amended): if neither the trimmed, lowercased originalText nor any of
\* its whitespace-separated tokens longer than 2 characters is a substring of
\* a lowercased line of the extracted text, findTextPosition returns nothing
\* for it and the mapping adds no position to the change: the change keeps
\* the position field its payload had, normally none.
C11_NoTokenOfTextGetsNoPosition ==
  Located =>
    LET clean == toLowerCase(trim(rawChange.originalText))
        tokens == splitWhitespace(clean)
        lows == LowLinesOf(extractedText)
    IN (\A low \in lows :
          /\ ~includes(low, clean)
          /\ \A n \in LongIdx(tokens) : ~includes(low, tokens[n]))
       => /\ matchTier = 0
          /\ matchResult = null
          /\ mpc = "mapped" => mappedChange[1].position = rawChange.position

\* C11 witness: spans were estimated, the originalText shares no token with
\* the text, and the change has been mapped without a position.
C11_Witness ==
  /\ mpc = "mapped"
  /\ searchText = LedTheTeam
  /\ extractedText = SqlWeb
  /\ Len(positions) = 3
  /\ matchResult = null
  /\ mappedChange[1].position = null

(***************************************************************************)
(* Documents (pdf-lib): a document is its sequence of pages; a page has a  *)
(* size, the content it was loaded with (original) and the draw operations *)
(* made on it since, in order.  Coordinates and sizes of draw operations   *)
(* are in tenths of a point, so that the line height 11 * 1.2 is a whole   *)
(* number.                                                                 *)
(***************************************************************************)
Tenths(n) == 10 * n

Page(size, original) == [size |-> size, original |-> original, ops |-> <<>>]

\* page.drawRectangle({x, y, width, height, color: white})
RectOp(x, y, width, height) ==
  [kind |-> "rect", x |-> Tenths(x), y |-> Tenths(y), width |-> Tenths(width),
   height |-> Tenths(height), text |-> <<>>, size |-> 0]

\* page.drawText(text, {x, y, size, font, color: black}), y in tenths
TextOp(text, x, y10, size) ==
  [kind |-> "text", x |-> Tenths(x), y |-> y10, width |-> 0, height |-> 0,
   text |-> text, size |-> Tenths(size)]

\* PDFDocument.load(buffer).getPages()
LoadedPages(buffer) ==
  [k \in 1..Len(buffer.pages) |-> Page(buffer.pages[k], TRUE)]

(***************************************************************************)
(* generateSimpleModifiedPDF (src/app/actions.ts:319-409)                  *)
(***************************************************************************)
reflowFontSize == 11
reflowMargin == 50
\* fontSize * 1.2, in tenths
reflowLineHeight == reflowFontSize * 12
defaultPageSize == [width |-> 612, height |-> 792]

\* lines 331-339
RECURSIVE applySelectedChanges(_, _)
applySelectedChanges(content, changes) ==
  IF changes = <<>> THEN content
  ELSE applySelectedChanges(
         IF Head(changes).selected
           THEN replace(content, Head(changes).originalText, Head(changes).modifiedText)
           ELSE content,
         Tail(changes))

\* font.widthOfTextAtSize(text, fontSize), in points
widthOfTextAtSize(text, gw) == Len(text) * gw

\* mutant of drawLine: the page is added and the cursor is not reset
drawLineNoReset(st, text, pageSize) ==
  LET st1 == IF st.y < Tenths(reflowMargin)
               THEN [pages |-> Append(st.pages, Page(pageSize, FALSE)), y |-> st.y]
               ELSE st
      n == Len(st1.pages)
  IN [st1 EXCEPT !.pages[n].ops =
        Append(@, TextOp(text, reflowMargin, st1.y, reflowFontSize))]

\* lines 371-383 and 391-402: a page is added when the cursor is below the
\* bottom margin, then the line is drawn at the cursor on the current page.
\* st is [pages, y]: the new document's pages and yPosition in tenths.
drawLine(st, text, pageSize) ==
  LET st1 == IF st.y < Tenths(reflowMargin)
               THEN [pages |-> Append(st.pages, Page(pageSize, FALSE)),
                     y |-> Tenths(pageSize.height - reflowMargin)]
               ELSE st
      n == Len(st1.pages)
  IN [st1 EXCEPT !.pages[n].ops =
        Append(@, TextOp(text, reflowMargin, st1.y, reflowFontSize))]

\* lines 362-387: the loop over the words of one line
RECURSIVE wrapWords(_, _, _, _, _)
wrapWords(st, words, current, pageSize, gw) ==
  IF words = <<>> THEN [st |-> st, currentLine |-> current]
  ELSE LET word == Head(words)
           testLine == IF current # <<>>
                         THEN current \o <<" ">> \o word
                         ELSE word
           maxWidth == pageSize.width - (reflowMargin * 2)
       IN IF widthOfTextAtSize(testLine, gw) <= maxWidth
            THEN wrapWords(st, Tail(words), testLine, pageSize, gw)
          ELSE IF current # <<>>
            THEN wrapWords([drawLine(st, current, pageSize)
                              EXCEPT !.y = @ - reflowLineHeight],
                           Tail(words), word, pageSize, gw)
          ELSE wrapWords(st, Tail(words), word, pageSize, gw)

\* lines 356-406: the loop over the lines
RECURSIVE layoutLines(_, _, _, _)
layoutLines(st, lines, pageSize, gw) ==
  IF lines = <<>> THEN st
  ELSE LET line == Head(lines)
           st1 == IF trim(line) # <<>>
                    THEN LET w == wrapWords(st, split(line, " "), <<>>, pageSize, gw)
                         IN IF w.currentLine # <<>>
                              THEN drawLine(w.st, w.currentLine, pageSize)
                              ELSE w.st
                    ELSE st
       IN layoutLines([st1 EXCEPT !.y = @ - reflowLineHeight], Tail(lines), pageSize, gw)

\* mutant of generateSimpleModifiedPDF: the text is laid out on pages added to
\* the document loaded and patched by generateModifiedPDF, not on a new one
generateSimpleModifiedPDFOnLoadedDoc(buffer, changes, content, gw) ==
  LET originalPages == LoadedPages(buffer)
      pageSize == IF Len(originalPages) > 0 THEN originalPages[1].size ELSE defaultPageSize
      st0 == [pages |-> Append(originalPdfDoc, Page(pageSize, FALSE)),
              y |-> Tenths(pageSize.height - reflowMargin)]
  IN layoutLines(st0, split(applySelectedChanges(content, changes), "\n"),
                 pageSize, gw).pages

\* the document saved at line 408, when no call into pdf-lib throws
generateSimpleModifiedPDF(buffer, changes, content, gw) ==
  LET originalPages == LoadedPages(buffer)
      pageSize == IF Len(originalPages) > 0 THEN originalPages[1].size ELSE defaultPageSize
      st0 == [pages |-> <<Page(pageSize, FALSE)>>,
              y |-> Tenths(pageSize.height - reflowMargin)]
  IN layoutLines(st0, split(applySelectedChanges(content, changes), "\n"),
                 pageSize, gw).pages

(***************************************************************************)
(* Inputs of generateModifiedPDF                                           *)
(***************************************************************************)
MaxChanges == 2

Letter == [width |-> 612, height |-> 792]
Small == [width |-> 160, height |-> 120]

\* what PDFDocument.load makes of the bytes: it throws, or yields the pages
Buffers ==
  { [loadable |-> FALSE, pages |-> <<>>],
    [loadable |-> TRUE, pages |-> <<Letter>>],
    [loadable |-> TRUE, pages |-> <<Small, Letter>>] }

WebAppsSqlWeb ==
  <<"w","e","b"," ","a","p","p","s","\n","\n","s","q","l"," ","w","e","b">>
Web == <<"w","e","b">>
Cloud == <<"c","l","o","u","d">>
Java == <<"j","a","v","a">>
Rust == <<"r","u","s","t">>

Contents == {WebAppsSqlWeb}
ChangeTexts == {<<Web, Cloud>>, <<Java, Rust>>}
\* position.pageIndex of a change that carries a position
PageIndexes == {0, 1}
GlyphWidths == {6, 20}

\* DetailedChange (src/app/actions.ts:19-28), the fields generateModifiedPDF reads
DetailedChange(k, texts, selected, position) ==
  [id |-> k, originalText |-> texts[1], modifiedText |-> texts[2],
   selected |-> selected, position |-> position]

ChangePositions(texts) ==
  {null} \cup {<<TextPosition(texts[1], 50, 750, 6 * Len(texts[1]), i)>> : i \in PageIndexes}

Changes(k) ==
  UNION { { DetailedChange(k, texts, sel, pos) :
              sel \in BOOLEAN, pos \in ChangePositions(texts) } : texts \in ChangeTexts }

ChangeSeqs ==
  UNION { { f \in [1..n -> UNION {Changes(k) : k \in 1..n}] :
              \A k \in 1..n : f[k].id = k } : n \in 0..MaxChanges }

\* messages of the errors pdf-lib throws
LoadError == "Failed to parse PDF document"
PatchErrors == {"patch step failed"}
ReflowErrors == {"reflow step failed"}

(***************************************************************************)
(* generateModifiedPDF (src/app/actions.ts:257-317), statement by          *)
(* statement; every call into pdf-lib either returns or throws.            *)
(***************************************************************************)
\* findTextPosition not called
MatchIdle ==
  /\ searchText = <<>>
  /\ positions = <<>>
  /\ mpc = "idle"
  /\ matchTier = 0
  /\ matchResult = null
  /\ extractedText = <<>>
  /\ rawChange = <<>>
  /\ mappedChange = <<>>

PdfInit ==
  /\ OptimizeIdle
  /\ MatchIdle
  /\ ReflowIdle
  /\ originalPdfBuffer \in Buffers
  /\ selectedChanges \in ChangeSeqs
  /\ originalContent \in Contents
  /\ glyphWidth \in GlyphWidths
  /\ pc = "load"
  /\ originalPdfDoc = <<>>
  /\ changeIdx = 0
  /\ error = <<>>
  /\ fallbackCalls = <<>>
  /\ fallbackError = <<>>
  /\ returned = <<>>
  /\ thrown = <<>>

\* line 306: the catch clause of the positional attempt
Catch(message) ==
  /\ error' = <<message>>
  /\ pc' = "fallback"
  /\ UNCHANGED <<originalPdfBuffer, selectedChanges, originalContent, glyphWidth,
                 originalPdfDoc, changeIdx, fallbackCalls, fallbackError,
                 returned, thrown>>

\* lines 264-265
Load ==
  /\ pc = "load"
  /\ IF originalPdfBuffer.loadable
       THEN /\ originalPdfDoc' = LoadedPages(originalPdfBuffer)
            /\ changeIdx' = 1
            /\ pc' = "loop"
            /\ UNCHANGED <<originalPdfBuffer, selectedChanges, originalContent,
                           glyphWidth, error, fallbackCalls, fallbackError,
                           returned, thrown>>
       ELSE Catch(LoadError)

\* the page of `change`, 1-based, or 0 when pages[pageIndex] is undefined
PageOf(change, pages) ==
  IF change.position[1].pageIndex \in 0..(Len(pages) - 1)
    THEN change.position[1].pageIndex + 1
    ELSE 0

\* lines 268-271: the loop head, the test of the change and of its page
LoopHead ==
  /\ pc = "loop"
  /\ IF changeIdx > Len(selectedChanges)
       THEN pc' = "save" /\ changeIdx' = changeIdx
     ELSE IF /\ selectedChanges[changeIdx].selected
             /\ selectedChanges[changeIdx].position # null
             /\ PageOf(selectedChanges[changeIdx], originalPdfDoc) # 0
       THEN pc' = "getSize" /\ changeIdx' = changeIdx
     ELSE pc' = "loop" /\ changeIdx' = changeIdx + 1
  /\ UNCHANGED <<originalPdfBuffer, selectedChanges, originalContent, glyphWidth,
                 originalPdfDoc, error, fallbackCalls, fallbackError, returned, thrown>>

\* line 274
GetSize ==
  /\ pc = "getSize"
  /\ pc' = "drawRectangle"
  /\ UNCHANGED <<originalPdfBuffer, selectedChanges, originalContent, glyphWidth,
                 originalPdfDoc, changeIdx, error, fallbackCalls, fallbackError,
                 returned, thrown>>

\* mutant of CoverRectangle: the estimator's top-down y is used as it is,
\* without the flip to the page's bottom-up coordinates
CoverRectangleTopDown(change, pageHeight) ==
  LET position == change.position[1]
  IN RectOp(position.x - 2,
            position.y - 2,
            position.width + 4,
            position.height + 4)

\* lines 277-283: the cover rectangle of a change on a page of height pageHeight
CoverRectangle(change, pageHeight) ==
  LET position == change.position[1]
  IN RectOp(position.x - 2,
            pageHeight - position.y - position.height - 2,
            position.width + 4,
            position.height + 4)

\* lines 294-300: the replacement text of a change
ReplacementText(change, pageHeight) ==
  LET position == change.position[1]
  IN TextOp(change.modifiedText,
            position.x,
            Tenths(pageHeight - position.y - position.fontSize),
            position.fontSize)

\* lines 277-283
DrawRectangle ==
  /\ pc = "drawRectangle"
  /\ LET change == selectedChanges[changeIdx]
         p == PageOf(change, originalPdfDoc)
     IN originalPdfDoc' =
          [originalPdfDoc EXCEPT ![p].ops =
             Append(@, CoverRectangle(change, originalPdfDoc[p].size.height))]
  /\ pc' = "embedFont"
  /\ UNCHANGED <<originalPdfBuffer, selectedChanges, originalContent, glyphWidth,
                 changeIdx, error, fallbackCalls, fallbackError, returned, thrown>>

\* lines 286-291: embedFont returns, at once or in the inner catch
EmbedFont ==
  /\ pc = "embedFont"
  /\ pc' = "drawText"
  /\ UNCHANGED <<originalPdfBuffer, selectedChanges, originalContent, glyphWidth,
                 originalPdfDoc, changeIdx, error, fallbackCalls, fallbackError,
                 returned, thrown>>

\* mutant of DrawText: the text is put under the operation drawn last on the
\* page, the cover rectangle, instead of after it
DrawTextUnderRectangle ==
  /\ pc = "drawText"
  /\ LET change == selectedChanges[changeIdx]
         p == PageOf(change, originalPdfDoc)
         ops == originalPdfDoc[p].ops
     IN originalPdfDoc' =
          [originalPdfDoc EXCEPT ![p].ops =
             SubSeq(ops, 1, Len(ops) - 1)
               \o <<ReplacementText(change, originalPdfDoc[p].size.height)>>
               \o SubSeq(ops, Len(ops), Len(ops))]
  /\ changeIdx' = changeIdx + 1
  /\ pc' = "loop"
  /\ UNCHANGED <<originalPdfBuffer, selectedChanges, originalContent, glyphWidth,
                 error, fallbackCalls, fallbackError, returned, thrown>>

\* lines 294-301
DrawText ==
  /\ pc = "drawText"
  /\ LET change == selectedChanges[changeIdx]
         p == PageOf(change, originalPdfDoc)
     IN originalPdfDoc' =
          [originalPdfDoc EXCEPT ![p].ops =
             Append(@, ReplacementText(change, originalPdfDoc[p].size.height))]
  /\ changeIdx' = changeIdx + 1
  /\ pc' = "loop"
  /\ UNCHANGED <<originalPdfBuffer, selectedChanges, originalContent, glyphWidth,
                 error, fallbackCalls, fallbackError, returned, thrown>>

\* line 304
Save ==
  /\ pc = "save"
  /\ returned' = <<originalPdfDoc>>
  /\ pc' = "returned"
  /\ UNCHANGED <<originalPdfBuffer, selectedChanges, originalContent, glyphWidth,
                 originalPdfDoc, changeIdx, error, fallbackCalls, fallbackError, thrown>>

\* lines 274-304: getSize, drawRectangle, embedFont (both attempts),
\* drawText or save throws
PatchStepThrows ==
  /\ pc \in {"getSize", "drawRectangle", "embedFont", "drawText", "save"}
  /\ \E message \in PatchErrors : Catch(message)

\* the same, the value thrown carrying no message (error.message is falsy)
PatchStepThrowsNoMessage ==
  /\ pc \in {"getSize", "drawRectangle", "embedFont", "drawText", "save"}
  /\ Catch("")

\* mutant of FailureMessage: the message of the fallback's error is wrapped
FailureMessageOfFallback(err, fallbackErr) ==
  <<"Failed to generate modified PDF: ",
    IF fallbackErr # "" THEN fallbackErr ELSE "Unknown error">>

\* line 314: `Failed to generate modified PDF: ${error.message || 'Unknown error'}`
FailureMessage(err, fallbackErr) ==
  <<"Failed to generate modified PDF: ",
    IF err # "" THEN err ELSE "Unknown error">>

\* lines 312-314: the catch clause of the fallback
FallbackCatch(message) ==
  /\ fallbackError' = <<message>>
  /\ thrown' = <<FailureMessage(error[1], message)>>
  /\ pc' = "thrown"
  /\ UNCHANGED returned

\* lines 310-311: the fallback is called with the arguments of the call; it
\* returns the reflowed document, or throws (the load of an unloadable buffer
\* throws again; any later call into pdf-lib may throw)
Fallback ==
  /\ pc = "fallback"
  /\ fallbackCalls' = Append(fallbackCalls,
       [originalPdfBuffer |-> originalPdfBuffer,
        selectedChanges |-> selectedChanges,
        originalContent |-> originalContent])
  /\ IF ~originalPdfBuffer.loadable
       THEN FallbackCatch(LoadError)
       ELSE \/ /\ returned' = <<generateSimpleModifiedPDF(originalPdfBuffer,
                                  selectedChanges, originalContent, glyphWidth)>>
               /\ pc' = "returned"
               /\ UNCHANGED <<fallbackError, thrown>>
            \/ \E message \in ReflowErrors : FallbackCatch(message)
  /\ UNCHANGED <<originalPdfBuffer, selectedChanges, originalContent, glyphWidth,
                 originalPdfDoc, changeIdx, error>>

PdfNext ==
  \/ (Load /\ UNCHANGED <<matchVars, reflowVars, optimizeVars>>)
  \/ (LoopHead /\ UNCHANGED <<matchVars, reflowVars, optimizeVars>>)
  \/ (GetSize /\ UNCHANGED <<matchVars, reflowVars, optimizeVars>>)
  \/ (DrawRectangle /\ UNCHANGED <<matchVars, reflowVars, optimizeVars>>)
  \/ (EmbedFont /\ UNCHANGED <<matchVars, reflowVars, optimizeVars>>)
  \/ (DrawText /\ UNCHANGED <<matchVars, reflowVars, optimizeVars>>)
  \/ (Save /\ UNCHANGED <<matchVars, reflowVars, optimizeVars>>)
  \/ (PatchStepThrows /\ UNCHANGED <<matchVars, reflowVars, optimizeVars>>)
  \/ (PatchStepThrowsNoMessage /\ UNCHANGED <<matchVars, reflowVars, optimizeVars>>)
  \/ (Fallback /\ UNCHANGED <<matchVars, reflowVars, optimizeVars>>)

SpecPdf == PdfInit /\ [][PdfNext]_vars

(***************************************************************************)
(* generateSimpleModifiedPDF (src/app/actions.ts:319-409), statement by    *)
(* statement, as called at line 311 after the positional attempt failed    *)
(***************************************************************************)
Tiny == [width |-> 160, height |-> 90]

ReflowBuffers ==
  { [loadable |-> FALSE, pages |-> <<>>],
    [loadable |-> TRUE, pages |-> <<Letter>>],
    [loadable |-> TRUE, pages |-> <<Small, Letter>>],
    [loadable |-> TRUE, pages |-> <<Tiny>>] }

\* a leading space, a double space, a whitespace-only line, a repeated word
GoWebWebWeb ==
  <<" ","g","o"," "," ","w","e","b","\n"," ","\n","w","e","b"," ","w","e","b"," ","w","e","b">>
WebDollars == <<"w","e","b","$","$">>

\* a line that ends with a space
WebSpaceSql == <<"w","e","b"," ","\n","s","q","l">>

ReflowContents == {WebAppsSqlWeb, GoWebWebWeb, WebSpaceSql}
ReflowChangeTexts == {<<Web, Cloud>>, <<Web, WebDollars>>, <<Java, Rust>>, <<<<>>, Cloud>>}

\* the changes of a call whose positional attempt drew nothing: no position
ReflowChangeSeqs ==
  UNION { { f \in [1..n -> UNION { { DetailedChange(k, texts, sel, null) :
                                       texts \in ReflowChangeTexts, sel \in BOOLEAN }
                                   : k \in 1..n }] :
              \A k \in 1..n : f[k].id = k } : n \in 0..MaxChanges }

\* generateModifiedPDF is at line 311: the load of line 264 threw, or it
\* returned, the loop drew nothing and the save of line 304 threw
ReflowInit ==
  /\ OptimizeIdle
  /\ MatchIdle
  /\ originalPdfBuffer \in ReflowBuffers
  /\ selectedChanges \in ReflowChangeSeqs
  /\ originalContent \in ReflowContents
  /\ glyphWidth \in GlyphWidths
  /\ pc = "fallback"
  /\ originalPdfDoc = IF originalPdfBuffer.loadable
                        THEN LoadedPages(originalPdfBuffer) ELSE <<>>
  /\ changeIdx = IF originalPdfBuffer.loadable THEN Len(selectedChanges) + 1 ELSE 0
  /\ error \in IF originalPdfBuffer.loadable
                 THEN {<<message>> : message \in PatchErrors} ELSE {<<LoadError>>}
  /\ fallbackCalls = <<[originalPdfBuffer |-> originalPdfBuffer,
                        selectedChanges |-> selectedChanges,
                        originalContent |-> originalContent]>>
  /\ fallbackError = <<>>
  /\ returned = <<>>
  /\ thrown = <<>>
  /\ rpc = "load"
  /\ modifiedContent = <<>>
  /\ replaceIdx = 0
  /\ newPdfDoc = <<>>
  /\ yPosition = 0
  /\ lineIdx = 0
  /\ wordIdx = 0
  /\ currentLine = <<>>

\* line 312: the error of generateSimpleModifiedPDF reaches the catch clause
ReflowCatch(message) ==
  /\ FallbackCatch(message)
  /\ rpc' = "thrown"
  /\ UNCHANGED <<originalPdfBuffer, selectedChanges, originalContent, glyphWidth,
                 originalPdfDoc, changeIdx, error, fallbackCalls>>
  /\ UNCHANGED <<modifiedContent, replaceIdx, newPdfDoc, yPosition, lineIdx,
                 wordIdx, currentLine>>

\* lines 325-331
ReflowLoad ==
  /\ rpc = "load"
  /\ IF originalPdfBuffer.loadable
       THEN /\ modifiedContent' = originalContent
            /\ replaceIdx' = 1
            /\ rpc' = "replace"
            /\ UNCHANGED <<pdfVars, newPdfDoc, yPosition, lineIdx, wordIdx, currentLine>>
       ELSE ReflowCatch(LoadError)

\* lines 332-339: one iteration of the loop over the changes
ReplaceChange ==
  /\ rpc = "replace"
  /\ IF replaceIdx > Len(selectedChanges)
       THEN /\ rpc' = "addPage"
            /\ UNCHANGED <<modifiedContent, replaceIdx>>
       ELSE /\ modifiedContent' =
                 IF selectedChanges[replaceIdx].selected
                   THEN replace(modifiedContent,
                                selectedChanges[replaceIdx].originalText,
                                selectedChanges[replaceIdx].modifiedText)
                   ELSE modifiedContent
            /\ replaceIdx' = replaceIdx + 1
            /\ rpc' = "replace"
  /\ UNCHANGED <<pdfVars, newPdfDoc, yPosition, lineIdx, wordIdx, currentLine>>

\* line 342
pageSizeOf(buffer) ==
  IF Len(LoadedPages(buffer)) > 0 THEN LoadedPages(buffer)[1].size ELSE defaultPageSize

\* lines 342-354
AddFirstPage ==
  /\ rpc = "addPage"
  /\ newPdfDoc' = <<Page(pageSizeOf(originalPdfBuffer), FALSE)>>
  /\ yPosition' = Tenths(pageSizeOf(originalPdfBuffer).height - reflowMargin)
  /\ lineIdx' = 1
  /\ rpc' = "line"
  /\ UNCHANGED <<pdfVars, modifiedContent, replaceIdx, wordIdx, currentLine>>

\* lines 356-360 and 404-405: the head of the loop over the lines; a blank
\* line only moves the cursor
LineHead ==
  /\ rpc = "line"
  /\ LET lines == split(modifiedContent, "\n")
     IN IF lineIdx > Len(lines)
          THEN /\ rpc' = "save"
               /\ UNCHANGED <<yPosition, lineIdx, wordIdx, currentLine>>
        ELSE IF trim(lines[lineIdx]) # <<>>
          THEN /\ rpc' = "word"
               /\ wordIdx' = 1
               /\ currentLine' = <<>>
               /\ UNCHANGED <<yPosition, lineIdx>>
        ELSE /\ yPosition' = yPosition - reflowLineHeight
             /\ lineIdx' = lineIdx + 1
             /\ rpc' = "line"
             /\ UNCHANGED <<wordIdx, currentLine>>
  /\ UNCHANGED <<pdfVars, modifiedContent, replaceIdx, newPdfDoc>>

\* mutant of WrapWord: the width of the word alone is measured, not that of
\* the line with the word added
WrapWordMeasuresWord ==
  /\ rpc = "word"
  /\ LET words == split(split(modifiedContent, "\n")[lineIdx], " ")
         pageSize == pageSizeOf(originalPdfBuffer)
         maxWidth == pageSize.width - (reflowMargin * 2)
     IN IF wordIdx > Len(words)
          THEN /\ rpc' = "rest"
               /\ UNCHANGED <<newPdfDoc, yPosition, wordIdx, currentLine>>
          ELSE LET word == words[wordIdx]
                   testLine == IF currentLine # <<>>
                                 THEN currentLine \o <<" ">> \o word
                                 ELSE word
               IN /\ IF widthOfTextAtSize(word, glyphWidth) <= maxWidth
                       THEN /\ currentLine' = testLine
                            /\ UNCHANGED <<newPdfDoc, yPosition>>
                       ELSE /\ currentLine' = word
                            /\ IF currentLine # <<>>
                                 THEN LET st == drawLine([pages |-> newPdfDoc, y |-> yPosition],
                                                         currentLine, pageSize)
                                      IN /\ newPdfDoc' = st.pages
                                         /\ yPosition' = st.y - reflowLineHeight
                                 ELSE UNCHANGED <<newPdfDoc, yPosition>>
                  /\ wordIdx' = wordIdx + 1
                  /\ rpc' = "word"
  /\ UNCHANGED <<pdfVars, modifiedContent, replaceIdx, lineIdx>>

\* mutant of WrapWord: on overflow the line is drawn and the next line
\* starts empty, the overflowing word forgotten
WrapWordDropsOverflow ==
  /\ rpc = "word"
  /\ LET words == split(split(modifiedContent, "\n")[lineIdx], " ")
         pageSize == pageSizeOf(originalPdfBuffer)
         maxWidth == pageSize.width - (reflowMargin * 2)
     IN IF wordIdx > Len(words)
          THEN /\ rpc' = "rest"
               /\ UNCHANGED <<newPdfDoc, yPosition, wordIdx, currentLine>>
          ELSE LET word == words[wordIdx]
                   testLine == IF currentLine # <<>>
                                 THEN currentLine \o <<" ">> \o word
                                 ELSE word
               IN /\ IF widthOfTextAtSize(testLine, glyphWidth) <= maxWidth
                       THEN /\ currentLine' = testLine
                            /\ UNCHANGED <<newPdfDoc, yPosition>>
                       ELSE IF currentLine # <<>>
                              THEN LET st == drawLine([pages |-> newPdfDoc, y |-> yPosition],
                                                      currentLine, pageSize)
                                   IN /\ newPdfDoc' = st.pages
                                      /\ yPosition' = st.y - reflowLineHeight
                                      /\ currentLine' = <<>>
                              ELSE /\ currentLine' = word
                                   /\ UNCHANGED <<newPdfDoc, yPosition>>
                  /\ wordIdx' = wordIdx + 1
                  /\ rpc' = "word"
  /\ UNCHANGED <<pdfVars, modifiedContent, replaceIdx, lineIdx>>

\* lines 362-387: one iteration of the loop over the words of the line
WrapWord ==
  /\ rpc = "word"
  /\ LET words == split(split(modifiedContent, "\n")[lineIdx], " ")
         pageSize == pageSizeOf(originalPdfBuffer)
         maxWidth == pageSize.width - (reflowMargin * 2)
     IN IF wordIdx > Len(words)
          THEN /\ rpc' = "rest"
               /\ UNCHANGED <<newPdfDoc, yPosition, wordIdx, currentLine>>
          ELSE LET word == words[wordIdx]
                   testLine == IF currentLine # <<>>
                                 THEN currentLine \o <<" ">> \o word
                                 ELSE word
               IN /\ IF widthOfTextAtSize(testLine, glyphWidth) <= maxWidth
                       THEN /\ currentLine' = testLine
                            /\ UNCHANGED <<newPdfDoc, yPosition>>
                       ELSE /\ currentLine' = word
                            /\ IF currentLine # <<>>
                                 THEN LET st == drawLine([pages |-> newPdfDoc, y |-> yPosition],
                                                         currentLine, pageSize)
                                      IN /\ newPdfDoc' = st.pages
                                         /\ yPosition' = st.y - reflowLineHeight
                                 ELSE UNCHANGED <<newPdfDoc, yPosition>>
                  /\ wordIdx' = wordIdx + 1
                  /\ rpc' = "word"
  /\ UNCHANGED <<pdfVars, modifiedContent, replaceIdx, lineIdx>>

\* lines 389-405: the remaining text of the line is drawn and the cursor
\* moves down by one line height
DrawRemaining ==
  /\ rpc = "rest"
  /\ IF currentLine # <<>>
       THEN LET st == drawLine([pages |-> newPdfDoc, y |-> yPosition], currentLine,
                               pageSizeOf(originalPdfBuffer))
            IN /\ newPdfDoc' = st.pages
               /\ yPosition' = st.y - reflowLineHeight
       ELSE /\ newPdfDoc' = newPdfDoc
            /\ yPosition' = yPosition - reflowLineHeight
  /\ lineIdx' = lineIdx + 1
  /\ rpc' = "line"
  /\ UNCHANGED <<pdfVars, modifiedContent, replaceIdx, wordIdx, currentLine>>

\* line 408, and the return of line 311
ReflowSave ==
  /\ rpc = "save"
  /\ rpc' = "returned"
  /\ returned' = <<newPdfDoc>>
  /\ pc' = "returned"
  /\ UNCHANGED <<originalPdfBuffer, selectedChanges, originalContent, glyphWidth,
                 originalPdfDoc, changeIdx, error, fallbackCalls, fallbackError, thrown>>
  /\ UNCHANGED <<modifiedContent, replaceIdx, newPdfDoc, yPosition, lineIdx,
                 wordIdx, currentLine>>

\* lines 328-408: create, addPage, embedFont, widthOfTextAtSize, drawText or
\* save throws
ReflowStepThrows ==
  /\ rpc \in {"addPage", "word", "rest", "save"}
  /\ \E message \in ReflowErrors : ReflowCatch(message)

ReflowNext ==
  \/ (ReflowLoad /\ UNCHANGED <<matchVars, optimizeVars>>)
  \/ (ReplaceChange /\ UNCHANGED <<matchVars, optimizeVars>>)
  \/ (AddFirstPage /\ UNCHANGED <<matchVars, optimizeVars>>)
  \/ (LineHead /\ UNCHANGED <<matchVars, optimizeVars>>)
  \/ (WrapWord /\ UNCHANGED <<matchVars, optimizeVars>>)
  \/ (DrawRemaining /\ UNCHANGED <<matchVars, optimizeVars>>)
  \/ (ReflowSave /\ UNCHANGED <<matchVars, optimizeVars>>)
  \/ (ReflowStepThrows /\ UNCHANGED <<matchVars, optimizeVars>>)

SpecReflow == ReflowInit /\ [][ReflowNext]_vars

(***************************************************************************)
(* JavaScript values, as JSON.parse builds them: a value is its type t and *)
(* its content v.  The content of a string is its characters, of a number  *)
(* its decimal digits, of an array its elements, of an object the function *)
(* from its property names to their values.                                *)
(***************************************************************************)
JUndefined == [t |-> "undefined", v |-> <<>>]
JNull == [t |-> "null", v |-> <<>>]
JBoolean(b) == [t |-> "boolean", v |-> IF b THEN <<"true">> ELSE <<"false">>]
JNumber(digits) == [t |-> "number", v |-> digits]
JString(chars) == [t |-> "string", v |-> chars]
JArray(elements) == [t |-> "array", v |-> elements]
JObject(properties) == [t |-> "object", v |-> properties]
\* a TextPosition stored on a change
JPosition(position) == [t |-> "TextPosition", v |-> position]

\* ToBoolean
Truthy(value) ==
  CASE value.t \in {"undefined", "null"} -> FALSE
    [] value.t = "boolean" -> value.v = <<"true">>
    [] value.t = "number" -> value.v \notin {<<"0">>, <<"-", "0">>}
    [] value.t = "string" -> value.v # <<>>
    [] OTHER -> TRUE

\* a === b for values that are not both objects or both arrays
StrictEquals(a, b) == a.t = b.t /\ a.v = b.v

\* a || b
Or(a, b) == IF Truthy(a) THEN a ELSE b

\* value[name] for a value that is neither null nor undefined and a name that
\* is no array index and no built-in property
Get(value, name) ==
  IF value.t = "object" /\ name \in DOMAIN value.v THEN value.v[name] ELSE JUndefined

Digits == <<"0", "1", "2", "3", "4", "5", "6", "7", "8", "9">>

\* String(n) for a natural number n
RECURSIVE Decimal(_)
Decimal(n) ==
  IF n < 10 THEN <<Digits[n + 1]>>
  ELSE Decimal(n \div 10) \o <<Digits[(n % 10) + 1]>>

\* the own enumerable properties a spread `...value` copies: those of an
\* object, the indexed elements of an array or characters of a string,
\* nothing for any other value
OwnProperties(value) ==
  CASE value.t = "object" -> value.v
    [] value.t \in {"array", "string"} ->
         LET idx == 1..Len(value.v)
         IN [name \in {Decimal(i - 1) : i \in idx} |->
               LET i == CHOOSE i \in idx : Decimal(i - 1) = name
               IN IF value.t = "array" THEN value.v[i] ELSE JString(<<value.v[i]>>)]
    [] OTHER -> <<>>

(***************************************************************************)
(* JSON.parse on a text of the JSON grammar without fractions, exponents   *)
(* and \b, \u escapes (a text using them is taken as a syntax error).      *)
(* Every parse function returns whether it succeeded, the value, and the   *)
(* 1-based index of the first character after it.                          *)
(***************************************************************************)
JsonSpace == {" ", "\t", "\n", "\r"}

SyntaxError == [ok |-> FALSE, value |-> JUndefined, next |-> 0]

JsonEscapes ==
  ("\"" :> "\"") @@ ("\\" :> "\\") @@ ("/" :> "/") @@ ("n" :> "\n") @@
  ("t" :> "\t") @@ ("r" :> "\r") @@ ("f" :> "\f")

\* the index of the first character at or after k that is not whitespace
RECURSIVE SkipSpace(_, _)
SkipSpace(s, k) ==
  IF k <= Len(s) /\ s[k] \in JsonSpace THEN SkipSpace(s, k + 1) ELSE k

StartsWith(s, k, t) == k + Len(t) - 1 <= Len(s) /\ SubSeq(s, k, k + Len(t) - 1) = t

\* the characters of a string literal whose opening quote is before k
RECURSIVE parseString(_, _, _)
parseString(s, k, chars) ==
  IF k > Len(s) THEN SyntaxError
  ELSE IF s[k] = "\"" THEN [ok |-> TRUE, value |-> JString(chars), next |-> k + 1]
  ELSE IF s[k] = "\\"
    THEN IF k + 1 <= Len(s) /\ s[k + 1] \in DOMAIN JsonEscapes
           THEN parseString(s, k + 2, Append(chars, JsonEscapes[s[k + 1]]))
           ELSE SyntaxError
  ELSE IF s[k] \in {"\t", "\n", "\r", "\f"} THEN SyntaxError
  ELSE parseString(s, k + 1, Append(chars, s[k]))

\* an integer literal at k: an optional minus sign, then 0 or a run of digits
\* that does not start with 0
parseNumber(s, k) ==
  LET from == IF s[k] = "-" THEN k + 1 ELSE k
      rest == {j \in from..Len(s) : \A d \in 1..10 : s[j] # Digits[d]}
      to == IF rest = {} THEN Len(s) + 1 ELSE MinOf(rest)
  IN IF to = from \/ (s[from] = "0" /\ to > from + 1) THEN SyntaxError
     ELSE [ok |-> TRUE, value |-> JNumber(SubSeq(s, k, to - 1)), next |-> to]

RECURSIVE parseValue(_, _)
RECURSIVE parseElements(_, _, _, _)
RECURSIVE parseMembers(_, _, _, _)

\* the elements of an array after its "[", k at the next element
parseElements(s, k, elements, first) ==
  IF k > Len(s) THEN SyntaxError
  ELSE IF first /\ s[k] = "]"
    THEN [ok |-> TRUE, value |-> JArray(elements), next |-> k + 1]
  ELSE LET element == parseValue(s, k)
           j == SkipSpace(s, element.next)
       IN IF ~element.ok \/ j > Len(s) THEN SyntaxError
          ELSE IF s[j] = ","
            THEN parseElements(s, SkipSpace(s, j + 1),
                               Append(elements, element.value), FALSE)
          ELSE IF s[j] = "]"
            THEN [ok |-> TRUE, value |-> JArray(Append(elements, element.value)),
                  next |-> j + 1]
          ELSE SyntaxError

\* the members of an object after its "{", k at the next member; of two
\* members of one name the later one stays
parseMembers(s, k, properties, first) ==
  IF k > Len(s) THEN SyntaxError
  ELSE IF first /\ s[k] = "}"
    THEN [ok |-> TRUE, value |-> JObject(properties), next |-> k + 1]
  ELSE IF s[k] # "\"" THEN SyntaxError
  ELSE LET name == parseString(s, k + 1, <<>>)
           colon == SkipSpace(s, name.next)
       IN IF ~name.ok \/ colon > Len(s) THEN SyntaxError
          ELSE IF s[colon] # ":" THEN SyntaxError
          ELSE LET member == parseValue(s, colon + 1)
                   j == SkipSpace(s, member.next)
                   withMember == (name.value.v :> member.value) @@ properties
               IN IF ~member.ok \/ j > Len(s) THEN SyntaxError
                  ELSE IF s[j] = ","
                    THEN parseMembers(s, SkipSpace(s, j + 1), withMember, FALSE)
                  ELSE IF s[j] = "}"
                    THEN [ok |-> TRUE, value |-> JObject(withMember), next |-> j + 1]
                  ELSE SyntaxError

parseValue(s, from) ==
  LET k == SkipSpace(s, from)
  IN IF k > Len(s) THEN SyntaxError
     ELSE IF s[k] = "{" THEN parseMembers(s, SkipSpace(s, k + 1), <<>>, TRUE)
     ELSE IF s[k] = "[" THEN parseElements(s, SkipSpace(s, k + 1), <<>>, TRUE)
     ELSE IF s[k] = "\"" THEN parseString(s, k + 1, <<>>)
     ELSE IF s[k] = "-" \/ \E d \in 1..10 : s[k] = Digits[d] THEN parseNumber(s, k)
     ELSE IF StartsWith(s, k, <<"n","u","l","l">>)
       THEN [ok |-> TRUE, value |-> JNull, next |-> k + 4]
     ELSE IF StartsWith(s, k, <<"t","r","u","e">>)
       THEN [ok |-> TRUE, value |-> JBoolean(TRUE), next |-> k + 4]
     ELSE IF StartsWith(s, k, <<"f","a","l","s","e">>)
       THEN [ok |-> TRUE, value |-> JBoolean(FALSE), next |-> k + 5]
     ELSE SyntaxError

\* JSON.parse(s): the value, or a SyntaxError thrown
JSONparse(s) ==
  LET parsed == parseValue(s, 1)
  IN IF parsed.ok /\ SkipSpace(s, parsed.next) > Len(s)
       THEN [ok |-> TRUE, value |-> parsed.value]
       ELSE [ok |-> FALSE, value |-> JUndefined]

\* s.match(/\{[\s\S]*\}/): from the first "{" to the last "}" after it, as
\* <<jsonMatch[0]>>, or null
jsonMatchOf(s) ==
  LET opens == {k \in 1..Len(s) : s[k] = "{"}
      closes == {k \in 1..Len(s) : s[k] = "}"}
  IN IF opens = {} THEN null
     ELSE LET open == MinOf(opens)
              after == {k \in closes : k > open}
          IN IF after = {} THEN null
             ELSE <<SubSeq(s, open, CHOOSE k \in after : \A j \in after : j <= k)>>

(***************************************************************************)
(* optimizeWithKeywords (src/app/actions.ts:99-255)                        *)
(***************************************************************************)
idName == <<"i","d">>
originalTextName == <<"o","r","i","g","i","n","a","l","T","e","x","t">>
modifiedTextName == <<"m","o","d","i","f","i","e","d","T","e","x","t">>
contextName == <<"c","o","n","t","e","x","t">>
changeTypeName == <<"c","h","a","n","g","e","T","y","p","e">>
keywordsName == <<"k","e","y","w","o","r","d","s">>
positionName == <<"p","o","s","i","t","i","o","n">>
selectedName == <<"s","e","l","e","c","t","e","d">>
detailedChangesName == <<"d","e","t","a","i","l","e","d","C","h","a","n","g","e","s">>
optimizedContentName == <<"o","p","t","i","m","i","z","e","d","C","o","n","t","e","n","t">>
changesName == <<"c","h","a","n","g","e","s">>

\* the string literals of lines 158-162, 219-227, 236-244 and 253
\* change_
ChangePrefix ==
  <<"c","h","a","n","g","e","_">>

\* Resume content
ResumeContent ==
  <<"R","e","s","u","m","e"," ","c","o","n","t","e","n","t">>

\* keyword
KeywordType ==
  <<"k","e","y","w","o","r","d">>

\* debug_change_1
DebugChangeId ==
  <<"d","e","b","u","g","_","c","h","a","n","g","e","_","1">>

\* Sample original text
SampleOriginalText ==
  <<"S","a","m","p","l","e"," ","o","r","i","g","i","n","a","l"," ","t","e",
    "x","t">>

\* Sample modified text with 
SampleModifiedTextWith ==
  <<"S","a","m","p","l","e"," ","m","o","d","i","f","i","e","d"," ","t","e",
    "x","t"," ","w","i","t","h"," ">>

\* Debug change - No JSON found in AI response
NoJsonFoundContext ==
  <<"D","e","b","u","g"," ","c","h","a","n","g","e"," ","-"," ","N","o"," ",
    "J","S","O","N"," ","f","o","u","n","d"," ","i","n"," ","A","I"," ","r",
    "e","s","p","o","n","s","e">>

\* Debug change - AI response parsing failed
ParsingFailedContext ==
  <<"D","e","b","u","g"," ","c","h","a","n","g","e"," ","-"," ","A","I"," ",
    "r","e","s","p","o","n","s","e"," ","p","a","r","s","i","n","g"," ","f",
    "a","i","l","e","d">>

\* Resume content has been optimized with selected keywords
ContentOptimizedSummary ==
  <<"R","e","s","u","m","e"," ","c","o","n","t","e","n","t"," ","h","a","s",
    " ","b","e","e","n"," ","o","p","t","i","m","i","z","e","d"," ","w","i",
    "t","h"," ","s","e","l","e","c","t","e","d"," ","k","e","y","w","o","r",
    "d","s">>

\* Resume optimized with selected keywords
ResumeOptimizedSummary ==
  <<"R","e","s","u","m","e"," ","o","p","t","i","m","i","z","e","d"," ","w",
    "i","t","h"," ","s","e","l","e","c","t","e","d"," ","k","e","y","w","o",
    "r","d","s">>

\* a TypeError thrown inside a try block
TypeError == [ok |-> FALSE, value |-> JUndefined]

\* lines 157-175 (and 196-214): one call of the map callback; index is 0-based
\* and poss is textPositions, as <<spans>>, or null when it was not passed
mapChange(change, index, poss) ==
  IF change.t \in {"null", "undefined"} THEN TypeError
  ELSE LET originalText == Get(change, originalTextName)
           defaults ==
             (idName :> Or(Get(change, idName), JString(ChangePrefix \o Decimal(index + 1))))
             @@ (originalTextName :> Or(originalText, JString(<<>>)))
             @@ (modifiedTextName :> Or(Get(change, modifiedTextName), JString(<<>>)))
             @@ (contextName :> Or(Get(change, contextName), JString(ResumeContent)))
             @@ (changeTypeName :> Or(Get(change, changeTypeName), JString(KeywordType)))
             @@ (keywordsName :> IF Get(change, keywordsName).t = "array"
                                   THEN Get(change, keywordsName) ELSE JArray(<<>>))
           \* the spread of `change` comes last and overrides the defaults
           mapped == JObject(OwnProperties(change) @@ defaults)
       IN IF poss # null /\ Truthy(originalText)
            THEN IF originalText.t # "string" THEN TypeError
                 ELSE LET position == findTextPosition(originalText.v, poss[1]).value
                      IN [ok |-> TRUE,
                          value |-> IF position # null
                                      THEN JObject((positionName :> JPosition(position[1]))
                                                   @@ mapped.v)
                                      ELSE mapped]
            ELSE [ok |-> TRUE, value |-> mapped]

\* lines 156-176: detailedChanges.map, the elements from the 0-based index on
RECURSIVE mapChanges(_, _, _)
mapChanges(elements, index, poss) ==
  IF index >= Len(elements) THEN [ok |-> TRUE, value |-> <<>>]
  ELSE LET head == mapChange(elements[index + 1], index, poss)
       IN IF ~head.ok THEN [ok |-> FALSE, value |-> <<>>]
          ELSE LET rest == mapChanges(elements, index + 1, poss)
               IN IF ~rest.ok THEN rest
                  ELSE [ok |-> TRUE, value |-> <<head.value>> \o rest.value]

\* the three properties of optimizationData read at lines 251-253
OptimizationData(detailedChanges, optimizedContent, changes) ==
  [detailedChanges |-> detailedChanges, optimizedContent |-> optimizedContent,
   changes |-> changes]

TierFailed == [ok |-> FALSE, data |-> OptimizationData(JUndefined, JUndefined, JUndefined)]

\* lines 148-176 (and 186-215): the body of a try block, from JSON.parse to
\* the end of the mapping; it fails when any statement of it throws
parseAndMap(jsonText, poss) ==
  LET parsed == JSONparse(jsonText)
  IN IF ~parsed.ok THEN TierFailed
     ELSE LET data == parsed.value
              raw == Get(data, detailedChangesName)
          IN \* line 151 reads a property of null; line 152 sets a property
             \* of a number, string or boolean
             IF data.t \notin {"object", "array"} THEN TierFailed
             ELSE LET mapped == mapChanges(IF raw.t = "array" THEN raw.v ELSE <<>>, 0, poss)
                  IN IF ~mapped.ok THEN TierFailed
                     ELSE [ok |-> TRUE,
                           data |-> OptimizationData(JArray(mapped.value),
                                                     Get(data, optimizedContentName),
                                                     Get(data, changesName))]

\* selectedKeywords.slice(0, 2)
firstTwo(keywords) == SubSeq(keywords, 1, IF Len(keywords) < 2 THEN Len(keywords) ELSE 2)

\* keywords.join(", ")
RECURSIVE joinKeywords(_)
joinKeywords(keywords) ==
  IF keywords = <<>> THEN <<>>
  ELSE IF Len(keywords) = 1 THEN keywords[1]
  ELSE keywords[1] \o <<",", " ">> \o joinKeywords(Tail(keywords))

\* lines 219-230 and 235-246: the placeholder result; context tells the two
\* places apart
placeholderData(text, keywords, context) ==
  OptimizationData(
    JArray(<<JObject(
      (idName :> JString(DebugChangeId))
      @@ (originalTextName :> JString(SampleOriginalText))
      @@ (modifiedTextName :>
            JString(SampleModifiedTextWith
                    \o joinKeywords(firstTwo(keywords))))
      @@ (contextName :> JString(context))
      @@ (changeTypeName :> JString(KeywordType))
      @@ (keywordsName :>
            JArray([n \in 1..Len(firstTwo(keywords)) |-> JString(keywords[n])])))>>),
    JString(text),
    JArray(<<JString(ContentOptimizedSummary)>>))

(***************************************************************************)
(* The calls of optimizeWithKeywords and what the page does with the       *)
(* result (src/unnamed/part_001:75-95, 124-140)                            *)
(***************************************************************************)
\* the bound on the number of elements of the payload's detailedChanges
MaxPayloadChanges == 2

\* elements of detailedChanges, as the response writes them
\* {"id":"change_1","originalText":"web","modifiedText":"cloud","context":"Skills","changeType":"phrasing","keywords":["cloud"]}
FullChange ==
  <<"{","\"","i","d","\"",":","\"","c","h","a","n","g","e","_","1","\"",",",
    "\"","o","r","i","g","i","n","a","l","T","e","x","t","\"",":","\"","w",
    "e","b","\"",",","\"","m","o","d","i","f","i","e","d","T","e","x","t",
    "\"",":","\"","c","l","o","u","d","\"",",","\"","c","o","n","t","e","x",
    "t","\"",":","\"","S","k","i","l","l","s","\"",",","\"","c","h","a","n",
    "g","e","T","y","p","e","\"",":","\"","p","h","r","a","s","i","n","g",
    "\"",",","\"","k","e","y","w","o","r","d","s","\"",":","[","\"","c","l",
    "o","u","d","\"","]","}">>

\* {"originalText":"sql","modifiedText":"rust"}
BareChange ==
  <<"{","\"","o","r","i","g","i","n","a","l","T","e","x","t","\"",":","\"",
    "s","q","l","\"",",","\"","m","o","d","i","f","i","e","d","T","e","x","t",
    "\"",":","\"","r","u","s","t","\"","}">>

\* {"id":null,"originalText":"web","modifiedText":"java","context":"","keywords":"java"}
NullIdChange ==
  <<"{","\"","i","d","\"",":","n","u","l","l",",","\"","o","r","i","g","i",
    "n","a","l","T","e","x","t","\"",":","\"","w","e","b","\"",",","\"","m",
    "o","d","i","f","i","e","d","T","e","x","t","\"",":","\"","j","a","v","a",
    "\"",",","\"","c","o","n","t","e","x","t","\"",":","\"","\"",",","\"","k",
    "e","y","w","o","r","d","s","\"",":","\"","j","a","v","a","\"","}">>

\* {"id":"change_2","originalText":"apps","modifiedText":"cloud apps"}
SecondIdChange ==
  <<"{","\"","i","d","\"",":","\"","c","h","a","n","g","e","_","2","\"",",",
    "\"","o","r","i","g","i","n","a","l","T","e","x","t","\"",":","\"","a",
    "p","p","s","\"",",","\"","m","o","d","i","f","i","e","d","T","e","x","t",
    "\"",":","\"","c","l","o","u","d"," ","a","p","p","s","\"","}">>

\* null
NullChange ==
  <<"n","u","l","l">>

\* {"id":"change_9","originalText":5,"modifiedText":"cloud"}
NumberTextChange ==
  <<"{","\"","i","d","\"",":","\"","c","h","a","n","g","e","_","9","\"",",",
    "\"","o","r","i","g","i","n","a","l","T","e","x","t","\"",":","5",",",
    "\"","m","o","d","i","f","i","e","d","T","e","x","t","\"",":","\"","c",
    "l","o","u","d","\"","}">>

ChangeJsons ==
  {FullChange, BareChange, NullIdChange, SecondIdChange, NullChange, NumberTextChange}

RECURSIVE joinJsons(_)
joinJsons(jsons) ==
  IF jsons = <<>> THEN <<>>
  ELSE IF Len(jsons) = 1 THEN jsons[1]
  ELSE jsons[1] \o <<",">> \o joinJsons(Tail(jsons))

\* {"detailedChanges":[
PayloadHead ==
  <<"{","\"","d","e","t","a","i","l","e","d","C","h","a","n","g","e","s","\"",
    ":","[">>

\* ],"optimizedContent":"cloud apps sql cloud","changes":["cloud added"]}
PayloadTail ==
  <<"]",",","\"","o","p","t","i","m","i","z","e","d","C","o","n","t","e","n",
    "t","\"",":","\"","c","l","o","u","d"," ","a","p","p","s"," ","s","q","l",
    " ","c","l","o","u","d","\"",",","\"","c","h","a","n","g","e","s","\"",
    ":","[","\"","c","l","o","u","d"," ","a","d","d","e","d","\"","]","}">>

\* the payload the prompt asks for, with the given elements
PayloadOf(jsons) == PayloadHead \o joinJsons(jsons) \o PayloadTail

Payloads ==
  {PayloadOf(jsons) :
     jsons \in UNION {[1..n -> ChangeJsons] : n \in 0..MaxPayloadChanges}}

\* Here is the JSON:\n
HereIsTheJson ==
  <<"H","e","r","e"," ","i","s"," ","t","h","e"," ","J","S","O","N",":","\n">>

\* {note} 
BracedNote ==
  <<"{","n","o","t","e","}"," ">>

\* Sorry, no changes.
SorryNoChanges ==
  <<"S","o","r","r","y",","," ","n","o"," ","c","h","a","n","g","e","s",".">>

\* null
NullPayload ==
  <<"n","u","l","l">>

\* []
ArrayPayload ==
  <<"[","]">>

\* {"detailedChanges":"none","optimizedContent":""}
ChangesNotAnArray ==
  <<"{","\"","d","e","t","a","i","l","e","d","C","h","a","n","g","e","s","\"",
    ":","\"","n","o","n","e","\"",",","\"","o","p","t","i","m","i","z","e",
    "d","C","o","n","t","e","n","t","\"",":","\"","\"","}">>

\* {"detailedChanges":[{"id":"a"}
CutAfterChange ==
  <<"{","\"","d","e","t","a","i","l","e","d","C","h","a","n","g","e","s","\"",
    ":","[","{","\"","i","d","\"",":","\"","a","\"","}">>

\* {"detailedChanges":[
CutInArray ==
  <<"{","\"","d","e","t","a","i","l","e","d","C","h","a","n","g","e","s","\"",
    ":","[">>

\*  {\n "detailedChanges" : [ ] }\n
SpacedPayload ==
  <<" ","{","\n"," ","\"","d","e","t","a","i","l","e","d","C","h","a","n","g",
    "e","s","\""," ",":"," ","["," ","]"," ","}","\n">>

\* changesResult.text: the payload alone, after a sentence, after a sentence
\* holding braces, and texts that are no such payload
ResponseTexts ==
  Payloads
  \cup {HereIsTheJson \o payload : payload \in Payloads}
  \cup {BracedNote \o payload : payload \in Payloads}
  \cup {SorryNoChanges, NullPayload, ArrayPayload, ChangesNotAnArray,
        CutAfterChange, CutInArray, SpacedPayload}

\* keywordResults.resumeText, or the resumeText of another caller
ResumeTexts == {<<>>, WebAppsSqlWeb}

KeywordLists == {<<>>, <<Cloud>>, <<Cloud, Rust, Java>>}

\* a call of optimizeWithKeywords; the page passes no textPositions (line 82),
\* another caller may pass the spans estimated from the text
OptimizeInit ==
  /\ MatchIdle
  /\ PdfIdle
  /\ ReflowIdle
  /\ resumeText \in ResumeTexts
  /\ selectedKeywords \in KeywordLists
  /\ textPositions \in {null, <<estimateTextPositions(resumeText)>>}
  /\ changesResultText = <<>>
  /\ opc = "guard"
  /\ parseTier = 0
  /\ optimizationData = null
  /\ optimizationResult = null
  /\ selectedChangesState = <<>>
  /\ generateModifiedPDFCall = null

\* lines 104-106
OptimizeGuard ==
  /\ opc = "guard"
  /\ opc' = IF resumeText = <<>> \/ Len(selectedKeywords) = 0 THEN "thrown" ELSE "generate"
  /\ UNCHANGED <<resumeText, selectedKeywords, textPositions, changesResultText,
                 parseTier, optimizationData, optimizationResult,
                 selectedChangesState, generateModifiedPDFCall>>

\* lines 109-143: the model answers with some text
GenerateText ==
  /\ opc = "generate"
  /\ changesResultText' \in ResponseTexts
  /\ opc' = "parse"
  /\ UNCHANGED <<resumeText, selectedKeywords, textPositions, parseTier,
                 optimizationData, optimizationResult, selectedChangesState,
                 generateModifiedPDFCall>>

\* lines 147-180: the first try block and its catch clause
ParseDirect ==
  /\ opc = "parse"
  /\ LET direct == parseAndMap(changesResultText, textPositions)
     IN IF direct.ok
          THEN /\ optimizationData' = <<direct.data>>
               /\ parseTier' = 1
               /\ opc' = "return"
          ELSE /\ opc' = "extract"
               /\ UNCHANGED <<optimizationData, parseTier>>
  /\ UNCHANGED <<resumeText, selectedKeywords, textPositions, changesResultText,
                 optimizationResult, selectedChangesState, generateModifiedPDFCall>>

\* mutant of ParseExtract: the error of the second JSON.parse is not caught
ParseExtractRethrows ==
  /\ opc = "extract"
  /\ LET jsonMatch == jsonMatchOf(changesResultText)
     IN IF jsonMatch # null
          THEN LET extract == parseAndMap(jsonMatch[1], textPositions)
               IN IF extract.ok
                    THEN /\ optimizationData' = <<extract.data>>
                         /\ parseTier' = 2
                         /\ opc' = "return"
                    ELSE /\ opc' = "thrown"
                         /\ UNCHANGED <<optimizationData, parseTier>>
          ELSE /\ optimizationData' =
                    <<placeholderData(changesResultText, selectedKeywords,
                                      NoJsonFoundContext)>>
               /\ parseTier' = 3
               /\ opc' = "return"
  /\ UNCHANGED <<resumeText, selectedKeywords, textPositions, changesResultText,
                 optimizationResult, selectedChangesState, generateModifiedPDFCall>>

\* lines 183-247: the embedded object is extracted and parsed; the
\* placeholder stands in when there is none or its try block throws
ParseExtract ==
  /\ opc = "extract"
  /\ LET jsonMatch == jsonMatchOf(changesResultText)
     IN IF jsonMatch # null
          THEN LET extract == parseAndMap(jsonMatch[1], textPositions)
               IN IF extract.ok
                    THEN /\ optimizationData' = <<extract.data>>
                         /\ parseTier' = 2
                    ELSE /\ optimizationData' =
                              <<placeholderData(changesResultText, selectedKeywords,
                                                ParsingFailedContext)>>
                         /\ parseTier' = 3
          ELSE /\ optimizationData' =
                    <<placeholderData(changesResultText, selectedKeywords,
                                      NoJsonFoundContext)>>
               /\ parseTier' = 3
  /\ opc' = "return"
  /\ UNCHANGED <<resumeText, selectedKeywords, textPositions, changesResultText,
                 optimizationResult, selectedChangesState, generateModifiedPDFCall>>

\* lines 250-254, and setOptimizationResult(results) of part_001:83
ReturnResult ==
  /\ opc = "return"
  /\ optimizationResult' =
       <<OptimizationData(
           Or(optimizationData[1].detailedChanges, JArray(<<>>)),
           Or(optimizationData[1].optimizedContent, JString(changesResultText)),
           Or(optimizationData[1].changes,
              JArray(<<JString(ResumeOptimizedSummary)>>)))>>
  /\ opc' = "returned"
  /\ UNCHANGED <<resumeText, selectedKeywords, textPositions, changesResultText,
                 parseTier, optimizationData, selectedChangesState,
                 generateModifiedPDFCall>>

\* part_001:84-89: every change starts selected
SetSelectedChanges ==
  /\ opc = "returned"
  /\ selectedChangesState' =
       LET detailedChanges == optimizationResult[1].detailedChanges.v
       IN [n \in 1..Len(detailedChanges) |->
             JObject((selectedName :> JBoolean(TRUE))
                     @@ OwnProperties(detailedChanges[n]))]
  /\ opc' = "review"
  /\ UNCHANGED <<resumeText, selectedKeywords, textPositions, changesResultText,
                 parseTier, optimizationData, optimizationResult,
                 generateModifiedPDFCall>>

\* part_001:124-128, called with the id of a listed change (line 452)
HandleChangeSelection ==
  /\ opc = "review"
  /\ \E n \in 1..Len(selectedChangesState), selected \in BOOLEAN :
       LET changeId == Get(selectedChangesState[n], idName)
       IN selectedChangesState' =
            [m \in 1..Len(selectedChangesState) |->
               IF StrictEquals(Get(selectedChangesState[m], idName), changeId)
                 THEN JObject((selectedName :> JBoolean(selected))
                              @@ OwnProperties(selectedChangesState[m]))
                 ELSE selectedChangesState[m]]
  /\ UNCHANGED <<resumeText, selectedKeywords, textPositions, changesResultText, opc,
                 parseTier, optimizationData, optimizationResult,
                 generateModifiedPDFCall>>

\* part_001:130-137: the call of generateModifiedPDF on
\* keywordResults.originalPdfBuffer, with its two other arguments
HandleDownloadPDF ==
  /\ opc = "review"
  /\ selectedChangesState # <<>>
  /\ generateModifiedPDFCall' =
       <<[selectedChanges |-> selectedChangesState,
          originalContent |-> optimizationResult[1].optimizedContent]>>
  /\ opc' = "download"
  /\ UNCHANGED <<resumeText, selectedKeywords, textPositions, changesResultText,
                 parseTier, optimizationData, optimizationResult, selectedChangesState>>

OptimizeNext ==
  \/ (OptimizeGuard /\ UNCHANGED <<matchVars, pdfVars, reflowVars>>)
  \/ (GenerateText /\ UNCHANGED <<matchVars, pdfVars, reflowVars>>)
  \/ (ParseDirect /\ UNCHANGED <<matchVars, pdfVars, reflowVars>>)
  \/ (ParseExtract /\ UNCHANGED <<matchVars, pdfVars, reflowVars>>)
  \/ (ReturnResult /\ UNCHANGED <<matchVars, pdfVars, reflowVars>>)
  \/ (SetSelectedChanges /\ UNCHANGED <<matchVars, pdfVars, reflowVars>>)
  \/ (HandleChangeSelection /\ UNCHANGED <<matchVars, pdfVars, reflowVars>>)
  \/ (HandleDownloadPDF /\ UNCHANGED <<matchVars, pdfVars, reflowVars>>)

SpecOptimize == OptimizeInit /\ [][OptimizeNext]_vars

(***************************************************************************)
(* Properties of generateModifiedPDF                                       *)
(***************************************************************************)
\* the draw operations of a document, over all its pages
OpsOf(doc) == UNION { {doc[p].ops[n] : n \in 1..Len(doc[p].ops)} : p \in 1..Len(doc) }

\* a document made of freshly created pages only
IsFreshDocument(doc) == \A p \in 1..Len(doc) : ~doc[p].original

\* the positional patch of a change is in the document: its cover rectangle
\* followed by its text, on the page its position names
IsPatchedWith(doc, change) ==
  /\ change.position # null
  /\ change.position[1].pageIndex \in 0..(Len(doc) - 1)
  /\ LET page == doc[change.position[1].pageIndex + 1]
     IN /\ page.original
        /\ \E n \in 1..(Len(page.ops) - 1) :
             /\ page.ops[n] = CoverRectangle(change, page.size.height)
             /\ page.ops[n + 1] = ReplacementText(change, page.size.height)

\* the arguments generateModifiedPDF was called with
CallArguments ==
  [originalPdfBuffer |-> originalPdfBuffer,
   selectedChanges |-> selectedChanges,
   originalContent |-> originalContent]

\* C1: whenever generateModifiedPDF returns a document, every selected change
\* has been applied to it, as a positional patch or by the reflowed re-layout;
\* with no position on a selected change the document returned is the
\* reflowed one.
C1_EverySelectedChangeApplied ==
  pc = "returned" =>
    \A k \in 1..Len(selectedChanges) :
      selectedChanges[k].selected =>
        \/ IsPatchedWith(returned[1], selectedChanges[k])
        \/ /\ fallbackCalls = <<CallArguments>>
           /\ IsFreshDocument(returned[1])

\* C2: if a step of positional patching throws, generateSimpleModifiedPDF is
\* invoked, once, with the arguments of the call, and a document returned
\* after that holds only text draws of the reflow (left margin, reflow font
\* size) on freshly created pages: none of the draws made on the loaded
\* document by the aborted attempt is in it.
C2_FallbackDiscardsPatch ==
  /\ (pc \in {"returned", "thrown"} /\ error # <<>>) => fallbackCalls = <<CallArguments>>
  /\ error = <<>> => fallbackCalls = <<>>
  /\ (pc = "returned" /\ error # <<>>) =>
       /\ Len(returned[1]) >= 1
       /\ IsFreshDocument(returned[1])
       /\ \A op \in OpsOf(returned[1]) :
            /\ op.kind = "text"
            /\ op.x = Tenths(reflowMargin)
            /\ op.size = Tenths(reflowFontSize)
            /\ op \notin OpsOf(originalPdfDoc)

\* C2 witness: a cover rectangle was drawn on the loaded document, a later
\* step threw, and the reflowed document was returned.
C2_Witness ==
  /\ pc = "returned"
  /\ error # <<>>
  /\ \E op \in OpsOf(originalPdfDoc) : op.kind = "rect"
  /\ OpsOf(returned[1]) # {}

\* C3: if a selected change carries a position whose pageIndex is no index of
\* the loaded document's pages, the document returned is the one of the
\* reflow fallback and holds no positional patch.
C3_MissingPageAbortsToReflow ==
  (/\ pc = "returned"
   /\ \E k \in 1..Len(selectedChanges) :
        /\ selectedChanges[k].selected
        /\ selectedChanges[k].position # null
        /\ selectedChanges[k].position[1].pageIndex
             \notin 0..(Len(originalPdfBuffer.pages) - 1))
  => /\ fallbackCalls = <<CallArguments>>
     /\ IsFreshDocument(returned[1])
     /\ \A k \in 1..Len(selectedChanges) : ~IsPatchedWith(returned[1], selectedChanges[k])

\* C4 (as stated): when the positional attempt and the fallback both fail,
\* there is no further attempt and the error thrown carries the message of
\* the error that made the reflow fail.
C4_WrapsReflowMessage ==
  pc = "thrown" =>
    /\ Len(fallbackCalls) = 1
    /\ thrown = << <<"Failed to generate modified PDF: ", fallbackError[1]>> >>

\* C4 (amended): when the positional attempt and the fallback both fail,
\* there is no further attempt (one call of the fallback, nothing returned)
\* and the error thrown carries the message of the error that made the
\* positional attempt fail, or "Unknown error" when that message is empty.
C4_WrapsPatchMessage ==
  /\ (error # <<>> /\ fallbackError # <<>>) <=> pc = "thrown"
  /\ pc = "thrown" =>
       /\ Len(fallbackCalls) = 1
       /\ returned = <<>>
       /\ ~ENABLED PdfNext
       /\ thrown = << <<"Failed to generate modified PDF: ",
                        IF error[1] = "" THEN "Unknown error" ELSE error[1]>> >>

\* C4 witness: both attempts failed, with different messages.
C4_Witness ==
  /\ pc = "thrown"
  /\ error # <<>>
  /\ fallbackError # <<>>
  /\ error[1] # ""
  /\ error[1] # fallbackError[1]

\* the positional attempt ended with the save of line 304
PatchReturned == pc = "returned" /\ error = <<>>

\* a change the loop of lines 268-302 patches: selected, with a position
\* whose page exists
IsPatchable(change, doc) ==
  /\ change.selected
  /\ change.position # null
  /\ change.position[1].pageIndex \in 0..(Len(doc) - 1)

\* C13: for each selected change with a position on an existing page of height
\* pageHeight, the patcher draws on page position.pageIndex a white rectangle
\* with origin (x - 2, pageHeight - y - height - 2) and size (width + 4,
\* height + 4), then modifiedText at (x, pageHeight - y - fontSize) with size
\* fontSize; the rectangle is on the page as soon as drawRectangle returned.
C13_PatchGeometry ==
  /\ PatchReturned =>
       \A k \in 1..Len(selectedChanges) :
         IsPatchable(selectedChanges[k], returned[1]) =>
           LET pos == selectedChanges[k].position[1]
               page == returned[1][pos.pageIndex + 1]
               pageHeight == page.size.height
           IN \E n \in 1..(Len(page.ops) - 1) :
                /\ page.ops[n].kind = "rect"
                /\ page.ops[n].x = 10 * (pos.x - 2)
                /\ page.ops[n].y = 10 * (pageHeight - pos.y - pos.height - 2)
                /\ page.ops[n].width = 10 * (pos.width + 4)
                /\ page.ops[n].height = 10 * (pos.height + 4)
                /\ page.ops[n + 1].kind = "text"
                /\ page.ops[n + 1].text = selectedChanges[k].modifiedText
                /\ page.ops[n + 1].x = 10 * pos.x
                /\ page.ops[n + 1].y = 10 * (pageHeight - pos.y - pos.fontSize)
                /\ page.ops[n + 1].size = 10 * pos.fontSize
  /\ pc \in {"embedFont", "drawText"} =>
       LET pos == selectedChanges[changeIdx].position[1]
           page == originalPdfDoc[pos.pageIndex + 1]
           last == page.ops[Len(page.ops)]
       IN /\ last.kind = "rect"
          /\ last.x = 10 * (pos.x - 2)
          /\ last.y = 10 * (page.size.height - pos.y - pos.height - 2)

\* C13 witness: a change was patched on the second page of a document whose
\* pages differ in height, and the document was saved.
C13_Witness ==
  /\ PatchReturned
  /\ Len(returned[1]) = 2
  /\ returned[1][1].size.height # returned[1][2].size.height
  /\ \E k \in 1..Len(selectedChanges) :
       /\ IsPatchable(selectedChanges[k], returned[1])
       /\ selectedChanges[k].position[1].pageIndex = 1
       /\ Len(returned[1][2].ops) = 2

\* the draws on page pageIndex that the changes carrying a position make, in
\* the order of the list: rectangle then text for every selected change
\* whose position names that page
RECURSIVE DrawsOfPositioned(_, _, _)
DrawsOfPositioned(changes, pageIndex, pageHeight) ==
  IF changes = <<>> THEN <<>>
  ELSE (IF /\ Head(changes).selected
           /\ Head(changes).position # null
           /\ Head(changes).position[1].pageIndex = pageIndex
          THEN <<CoverRectangle(Head(changes), pageHeight),
                 ReplacementText(Head(changes), pageHeight)>>
          ELSE <<>>)
       \o DrawsOfPositioned(Tail(changes), pageIndex, pageHeight)

RECURSIVE CountPositioned(_)
CountPositioned(changes) ==
  IF changes = <<>> THEN 0
  ELSE (IF Head(changes).selected /\ Head(changes).position # null THEN 1 ELSE 0)
       + CountPositioned(Tail(changes))

RECURSIVE CountOps(_)
CountOps(doc) ==
  IF doc = <<>> THEN 0 ELSE Len(Head(doc).ops) + CountOps(Tail(doc))

\* C14: the patcher draws nothing and raises nothing for a change that is
\* unselected or has no position: the draw operations of a successful patch
\* are exactly those of the selected changes carrying a position, a rectangle
\* and a text for each, so with none of them the saved document has no draw.
C14_DrawsExactlyPositionedSelected ==
  /\ pc \in {"getSize", "drawRectangle", "embedFont", "drawText"} =>
       /\ selectedChanges[changeIdx].selected
       /\ selectedChanges[changeIdx].position # null
  /\ PatchReturned =>
       /\ CountOps(returned[1]) = 2 * CountPositioned(selectedChanges)
       /\ \A p \in 1..Len(returned[1]) :
            returned[1][p].ops =
              DrawsOfPositioned(selectedChanges, p - 1, returned[1][p].size.height)

\* the changes before index k that the loop patched
PatchedBefore(k) ==
  {j \in 1..(k - 1) : IsPatchable(selectedChanges[j], originalPdfDoc)}

\* C15: the draws of the positional patch are made one at a time, each after
\* everything drawn before on its page, in the order of the list: when the
\* rectangle of a change is drawn, the rectangle and the text of every patched
\* change before it in the list are in the document and nothing of a later
\* change is; when its text is drawn, its own rectangle was the draw before.
C15_DrawsInListOrder ==
  [][(originalPdfDoc # <<>> /\ originalPdfDoc' # originalPdfDoc) =>
       LET change == selectedChanges[changeIdx]
           p == change.position[1].pageIndex + 1
           before == originalPdfDoc[p].ops
           after == originalPdfDoc'[p].ops
           drawn == after[Len(after)]
       IN /\ Len(after) = Len(before) + 1
          /\ SubSeq(after, 1, Len(before)) = before
          /\ \A q \in 1..Len(originalPdfDoc) :
               q # p => originalPdfDoc'[q] = originalPdfDoc[q]
          /\ \A j \in PatchedBefore(changeIdx) :
               IsPatchedWith(originalPdfDoc, selectedChanges[j])
          /\ IF drawn.kind = "rect"
               THEN /\ drawn = CoverRectangle(change, originalPdfDoc[p].size.height)
                    /\ CountOps(originalPdfDoc) = 2 * Cardinality(PatchedBefore(changeIdx))
               ELSE /\ drawn = ReplacementText(change, originalPdfDoc[p].size.height)
                    /\ before[Len(before)] =
                         CoverRectangle(change, originalPdfDoc[p].size.height)
                    /\ CountOps(originalPdfDoc)
                         = 2 * Cardinality(PatchedBefore(changeIdx)) + 1
    ]_vars

\* C15 witness: the first change of the list was patched on the second page
\* and the second change on the first page, and the document was saved.
C15_Witness ==
  /\ PatchReturned
  /\ Len(selectedChanges) >= 2
  /\ IsPatchable(selectedChanges[1], returned[1])
  /\ IsPatchable(selectedChanges[2], returned[1])
  /\ selectedChanges[1].position[1].pageIndex = 1
  /\ selectedChanges[2].position[1].pageIndex = 0
  /\ Len(returned[1][1].ops) = 2
  /\ Len(returned[1][2].ops) = 2

(***************************************************************************)
(* Properties of generateSimpleModifiedPDF                                 *)
(***************************************************************************)
\* the 0-based indexes at which t occurs in content
Occurrences(content, t) ==
  {i \in 0..(Len(content) - Len(t)) : SubSeq(content, i + 1, i + Len(t)) = t}

\* content with its first occurrence of t replaced by the characters of m,
\* content itself when t does not occur
LiteralReplaceFirst(content, t, m) ==
  IF Occurrences(content, t) = {} THEN content
  ELSE LET at == MinOf(Occurrences(content, t))
       IN SubSeq(content, 1, at) \o m \o SubSeq(content, at + Len(t) + 1, Len(content))

RECURSIVE LiteralApply(_, _)
LiteralApply(content, changes) ==
  IF changes = <<>> THEN content
  ELSE LiteralApply(IF Head(changes).selected
                      THEN LiteralReplaceFirst(content, Head(changes).originalText,
                                               Head(changes).modifiedText)
                      ELSE content,
                    Tail(changes))

\* the loop of lines 332-339 has ended
Substituted == rpc # "load" /\ replaceIdx > Len(selectedChanges)

\* C16: each selected change replaces only the first occurrence of its
\* originalText in the current content with its modifiedText, every other
\* character kept; a selected change whose originalText does not occur, and
\* every unselected change, leaves the content unchanged.
C16_FirstOccurrenceReplacedLiterally ==
  rpc \in {"replace", "addPage", "line", "word", "rest", "save", "returned"} =>
    modifiedContent =
      LiteralApply(originalContent, SubSeq(selectedChanges, 1, replaceIdx - 1))

SelectedIdx == {k \in 1..Len(selectedChanges) : selectedChanges[k].selected}

RECURSIVE Flatten(_)
Flatten(seqs) == IF seqs = <<>> THEN <<>> ELSE Head(seqs) \o Flatten(Tail(seqs))

\* the non-blank space-delimited words of a line of text
WordsOf(content) == SelectSeq(split(content, " "), LAMBDA w : trim(w) # <<>>)

\* the words of a text, line by line
InputWords(content) ==
  LET lines == split(content, "\n")
  IN Flatten([n \in 1..Len(lines) |-> WordsOf(lines[n])])

\* the words drawn on a document, page by page and draw by draw
DrawnWords(doc) ==
  LET ops == Flatten([p \in 1..Len(doc) |-> doc[p].ops])
  IN Flatten([n \in 1..Len(ops) |-> WordsOf(ops[n].text)])

\* C18: with no selected change, the reflowed document draws every non-blank
\* space-delimited word of the input text exactly once, and the words read in
\* draw order (page by page, each page from its top line down) are the words
\* of the input in the input's order.
C18_RoundTrip ==
  (rpc = "returned" /\ SelectedIdx = {}) =>
    /\ DrawnWords(returned[1]) = InputWords(originalContent)
    /\ \A p \in 1..Len(returned[1]) :
         \A n \in 1..(Len(returned[1][p].ops) - 1) :
           returned[1][p].ops[n].y > returned[1][p].ops[n + 1].y

\* C18 witness: with no selected change, a text of three lines, one of them
\* blank, was drawn with more draws than it has lines, on more than one page.
C18_Witness ==
  /\ rpc = "returned"
  /\ SelectedIdx = {}
  /\ originalContent = GoWebWebWeb
  /\ Len(returned[1]) >= 2
  /\ CountOps(returned[1]) >= 3

\* pageWidth - 2 x margin of the call
MaxWidthOfCall == pageSizeOf(originalPdfBuffer).width - 2 * reflowMargin

\* C19 (as stated): every line drawn has a measured width of at most
\* pageWidth - 2 x margin.
C19_EveryLineFits ==
  \A op \in OpsOf(newPdfDoc) :
    widthOfTextAtSize(op.text, glyphWidth) <= MaxWidthOfCall

\* C19 (amended): every line drawn that holds more than one word (it
\* contains a space) has a measured width of at most pageWidth - 2 x margin;
\* a line made of a single word is drawn whatever its width.
C19_MultiWordLinesFit ==
  \A op \in OpsOf(newPdfDoc) :
    /\ op.text # <<>>
    /\ \/ widthOfTextAtSize(op.text, glyphWidth) <= MaxWidthOfCall
       \/ \A n \in 1..Len(op.text) : op.text[n] # " "

\* C19 witness: a line of two words was drawn, the third word of the input
\* line drawn after it because the three did not fit.
C19_Witness ==
  /\ rpc = "returned"
  /\ \E p \in 1..Len(newPdfDoc) :
       \E n \in 1..(Len(newPdfDoc[p].ops) - 1) :
         /\ newPdfDoc[p].ops[n].text = <<"w","e","b"," ","w","e","b">>
         /\ newPdfDoc[p].ops[n + 1].text = Web
         /\ widthOfTextAtSize(<<"w","e","b"," ","w","e","b"," ","w","e","b">>, glyphWidth)
              > MaxWidthOfCall

\* where the draws are and how the pages come to be: every text draw is at a
\* y between the bottom margin and pageHeight - margin, every page after the
\* first holds a draw and its first draw is at pageHeight - margin
DrawsWithinMargins ==
  LET pageHeight == pageSizeOf(originalPdfBuffer).height
  IN /\ \A op \in OpsOf(newPdfDoc) :
          /\ Tenths(reflowMargin) <= op.y
          /\ op.y <= Tenths(pageHeight - reflowMargin)
     /\ \A p \in 2..Len(newPdfDoc) :
          /\ newPdfDoc[p].ops # <<>>
          /\ newPdfDoc[p].ops[1].y = Tenths(pageHeight - reflowMargin)

\* a step that adds a page to the new document, after its first page: the
\* cursor was below the bottom margin, one page is added, the line is drawn
\* on it at pageHeight - margin and the cursor is one line height below
PageAddedBeforeDraw ==
  (newPdfDoc # <<>> /\ Len(newPdfDoc') # Len(newPdfDoc)) =>
    LET pageHeight == pageSizeOf(originalPdfBuffer).height
        n == Len(newPdfDoc)
    IN /\ yPosition < Tenths(reflowMargin)
       /\ Len(newPdfDoc') = n + 1
       /\ SubSeq(newPdfDoc', 1, n) = newPdfDoc
       /\ Len(newPdfDoc'[n + 1].ops) = 1
       /\ newPdfDoc'[n + 1].ops[1].y = Tenths(pageHeight - reflowMargin)
       /\ yPosition' = Tenths(pageHeight - reflowMargin) - reflowLineHeight

\* C20 (as stated): a new page is added only immediately before a line is
\* drawn while the cursor is below the bottom margin; the cursor is reset to
\* pageHeight - margin and that line is the first drawn on the new page, so
\* every text draw is at a y with margin <= y <= pageHeight - margin and no
\* page after the first is left without a draw.
C20_PagesAndMargins ==
  /\ []DrawsWithinMargins
  /\ [][PageAddedBeforeDraw]_vars

\* C20 (amended): the same, for a page at least 2 x margin high; on a lower
\* page pageHeight - margin is itself below the bottom margin, and every line
\* is drawn there, on a page of its own.
C20_PagesAndMarginsOnTallPage ==
  /\ [](pageSizeOf(originalPdfBuffer).height >= 2 * reflowMargin => DrawsWithinMargins)
  /\ [][PageAddedBeforeDraw]_vars

\* C20 witness: the third line drawn did not fit above the bottom margin of
\* the first page and is the first draw of the second page.
C20_Witness ==
  /\ rpc = "returned"
  /\ pageSizeOf(originalPdfBuffer).height >= 2 * reflowMargin
  /\ Len(newPdfDoc) >= 2
  /\ Len(newPdfDoc[1].ops) = 2
  /\ newPdfDoc[2].ops[1].y = Tenths(pageSizeOf(originalPdfBuffer).height - reflowMargin)

\* the lines of the substituted text
LinesOfCall == split(modifiedContent, "\n")

\* the number of blank lines right before line i of the substituted text
RECURSIVE BlankLinesBefore(_, _)
BlankLinesBefore(lines, i) ==
  IF i > 1 /\ trim(lines[i - 1]) = <<>> THEN 1 + BlankLinesBefore(lines, i - 1) ELSE 0

\* between two input lines: when the line drawn last is on the current page,
\* the cursor is below it by one line height for that line and one more for
\* every blank line that followed it
CursorTracksLines ==
  (rpc = "line" /\ newPdfDoc[Len(newPdfDoc)].ops # <<>>) =>
    LET ops == newPdfDoc[Len(newPdfDoc)].ops
    IN yPosition = ops[Len(ops)].y
                     - (BlankLinesBefore(LinesOfCall, lineIdx) + 1) * reflowLineHeight

\* the step of a blank input line draws nothing and moves the cursor down by
\* one line height
BlankLineMovesCursor ==
  (rpc = "line" /\ rpc' = "line") =>
    /\ trim(LinesOfCall[lineIdx]) = <<>>
    /\ newPdfDoc' = newPdfDoc
    /\ yPosition' = yPosition - reflowLineHeight

\* a step that draws on the current page draws at the cursor and moves the
\* cursor down by one line height
DrawMovesCursor ==
  (newPdfDoc # <<>> /\ newPdfDoc' # newPdfDoc /\ Len(newPdfDoc') = Len(newPdfDoc)) =>
    LET ops == newPdfDoc'[Len(newPdfDoc)].ops
    IN /\ ops[Len(ops)].y = yPosition
       /\ yPosition' = yPosition - reflowLineHeight

\* C21: a blank input line emits no draw and moves the cursor down by exactly
\* one line height, and every drawn line likewise moves it down by exactly
\* one line height, so the draw of a line and the draw before it on the same
\* page, k blank input lines between them, are (k + 1) line heights apart.
C21_OneLineHeightPerLine ==
  /\ []CursorTracksLines
  /\ [][BlankLineMovesCursor /\ DrawMovesCursor]_vars

(***************************************************************************)
(* Properties of estimateTextPositions                                     *)
(***************************************************************************)
\* the spans have been estimated from extractedText
Estimated == mpc # "extract"

\* C22: in the output of estimateTextPositions the pageIndex never decreases
\* from one span to the next, and between two spans of the same pageIndex the
\* y never increases (stated on consecutive spans; the order of any two spans
\* follows since the pageIndex is monotone).
C22_PagesThenDownwards ==
  Estimated =>
    \A i \in 1..(Len(positions) - 1) :
      /\ positions[i].pageIndex <= positions[i + 1].pageIndex
      /\ positions[i].pageIndex = positions[i + 1].pageIndex
           => positions[i].y >= positions[i + 1].y

\* C22 witness: the estimated spans reach a second page and hold spans of
\* different y on one page.
C22_Witness ==
  /\ Estimated
  /\ \E i, j \in 1..Len(positions) :
       /\ i < j
       /\ positions[i].pageIndex = 0
       /\ positions[j].pageIndex = 1
  /\ \E i \in 1..(Len(positions) - 1) :
       /\ positions[i].pageIndex = positions[i + 1].pageIndex
       /\ positions[i].y > positions[i + 1].y

\* the words of a line that get a word span
LongWordsOf(line) == SelectSeq(splitWhitespace(trim(line)), LAMBDA w : Len(w) > 2)

\* the number of spans a line contributes
SpanCountOf(line) == IF trim(line) = <<>> THEN 0 ELSE 1 + Len(LongWordsOf(line))

\* the number of spans contributed by the lines before line n
RECURSIVE SpansBefore(_, _)
SpansBefore(lines, n) ==
  IF n <= 1 THEN 0 ELSE SpansBefore(lines, n - 1) + SpanCountOf(lines[n - 1])

\* C23: the output of estimateTextPositions is the lines' contributions in
\* reading order: a blank line contributes nothing, a non-blank line its line
\* span immediately followed by one word span per word longer than 2
\* characters, in order; the spans of one line share y and a pageIndex >= 0,
\* and the word spans' x never decreases, starting at the line span's x.
C23_LineByLine ==
  Estimated =>
    LET lines == split(extractedText, "\n")
    IN /\ Len(positions) = SpansBefore(lines, Len(lines) + 1)
       /\ \A n \in 1..Len(lines) :
            trim(lines[n]) # <<>> =>
              LET first == SpansBefore(lines, n) + 1
                  words == LongWordsOf(lines[n])
                  lineSpan == positions[first]
              IN /\ lineSpan.text = trim(lines[n])
                 /\ lineSpan.pageIndex >= 0
                 /\ \A w \in 1..Len(words) :
                      LET wordSpan == positions[first + w]
                      IN /\ wordSpan.text = words[w]
                         /\ wordSpan.y = lineSpan.y
                         /\ wordSpan.pageIndex = lineSpan.pageIndex
                         /\ wordSpan.x >= positions[first + w - 1].x
                 /\ words # <<>> => positions[first + 1].x = lineSpan.x

\* C23 witness: a text with an indented line holding a short word, a blank
\* line and a further line has been estimated into three spans.
C23_Witness ==
  /\ Estimated
  /\ extractedText = GoCrossBlankFunctional
  /\ Len(positions) = 4
  /\ positions[2].text = Cross
  /\ positions[3].text = Functional

\* C24 (as stated): every estimated span is 6 wide per character of the text
\* it carries.
C24_WidthOfCarriedText ==
  Estimated =>
    \A k \in 1..Len(positions) :
      positions[k].width = estimateGlyphWidth * Len(positions[k].text)

\* the indexes of the first spans of the pairs the adjacent-pair tier accepts
AcceptedPairs ==
  LET tokens == splitWhitespace(toLowerCase(trim(searchText)))
      low == [k \in 1..Len(positions) |-> toLowerCase(positions[k].text)]
  IN PairIdx(tokens, low)

\* C29 (as stated): on estimated spans the span returned by the adjacent-pair
\* tier of findTextPosition is at least as wide as the first span of the
\* pair, and its width is not negative.
C29_PairWidthNotShrunk ==
  (Located /\ matchTier = 3) =>
    LET k == MinOf(AcceptedPairs)
    IN /\ matchResult[1].width >= 0
       /\ matchResult[1].width >= positions[k].width

\* C30 (as stated): for every estimated span and a page 792 high, the cover
\* rectangle and the text origin of the positional patch lie inside the page.
C30_PatchInsidePage ==
  Estimated =>
    \A k \in 1..Len(positions) :
      LET change == DetailedChange(1, <<positions[k].text, Cloud>>, TRUE, <<positions[k]>>)
          rect == CoverRectangle(change, Letter.height)
          origin == ReplacementText(change, Letter.height)
      IN /\ 0 <= rect.y
         /\ rect.y + rect.height <= Tenths(Letter.height)
         /\ 0 <= origin.y
         /\ origin.y <= Tenths(Letter.height)

(***************************************************************************)
(* Properties of optimizeWithKeywords and of the page's download           *)
(***************************************************************************)
\* optimizationData has been assigned by one of the three tiers
Answered == opc \in {"return", "returned", "review", "download"}

\* optimizeWithKeywords has resolved with optimizationResult
Resolved == opc \in {"returned", "review", "download"}

\* detailedChanges is exactly one change, of id 'debug_change_1'
IsPlaceholder(detailedChanges) ==
  /\ detailedChanges.t = "array"
  /\ Len(detailedChanges.v) = 1
  /\ StrictEquals(Get(detailedChanges.v[1], idName), JString(DebugChangeId))

\* C25 (as stated): with resumeText and selectedKeywords not empty the call
\* never throws; the result is the directly parsed payload when JSON.parse of
\* the text succeeds, otherwise the payload parsed from the embedded
\* '{'...'}' extract when that parses, and only when both fail the
\* placeholder.
C25_ParsedPayloadUsed ==
  /\ (resumeText # <<>> /\ selectedKeywords # <<>>) => opc # "thrown"
  /\ Answered =>
       LET directOk == JSONparse(changesResultText).ok
           jsonMatch == jsonMatchOf(changesResultText)
           extractOk == jsonMatch # null /\ JSONparse(jsonMatch[1]).ok
       IN /\ directOk => parseTier = 1
          /\ (~directOk /\ extractOk) => parseTier = 2
          /\ (~directOk /\ ~extractOk) => parseTier = 3
          /\ parseTier = 3 => IsPlaceholder(optimizationData[1].detailedChanges)

\* C25 (amended): with resumeText and selectedKeywords not empty the call
\* never throws on the payload.  The result is that of the first try block
\* (JSON.parse of the whole text and the mapping of its detailedChanges) when
\* no statement of it throws, otherwise that of the second try block (the
\* same on the embedded '{'...'}' extract) when there is an extract and no
\* statement of it throws, and only when both fail the result whose
\* detailedChanges is the one placeholder change; the second tier is entered
\* only after the first has failed, and the result resolved with holds the
\* detailedChanges of the tier that assigned them.
C25_TiersInOrder ==
  /\ (resumeText # <<>> /\ selectedKeywords # <<>>) => opc # "thrown"
  /\ opc = "extract" => ~parseAndMap(changesResultText, textPositions).ok
  /\ Answered =>
       LET direct == parseAndMap(changesResultText, textPositions)
           jsonMatch == jsonMatchOf(changesResultText)
           extract == IF jsonMatch = null THEN TierFailed
                      ELSE parseAndMap(jsonMatch[1], textPositions)
           data == optimizationData[1]
       IN /\ direct.ok => (parseTier = 1 /\ data = direct.data)
          /\ (~direct.ok /\ extract.ok) => (parseTier = 2 /\ data = extract.data)
          /\ (~direct.ok /\ ~extract.ok) =>
               (parseTier = 3 /\ IsPlaceholder(data.detailedChanges))
  /\ Resolved =>
       /\ optimizationResult # null
       /\ optimizationResult[1].detailedChanges = optimizationData[1].detailedChanges

\* C25 witness: a payload that JSON.parse accepts and whose mapping throws on
\* a null element has gone through both try blocks and the call has resolved
\* with the placeholder.
C25_Witness ==
  /\ Resolved
  /\ changesResultText = PayloadOf(<<BareChange, NullChange>>)
  /\ parseTier = 3
  /\ Len(optimizationResult[1].detailedChanges.v) = 1
  /\ Get(optimizationResult[1].detailedChanges.v[1], contextName)
       = JString(ParsingFailedContext)

\* C26 (as stated): every change of the detailedChanges resolved with has
\* strings for id, originalText, modifiedText and context, a changeType and
\* an array for keywords; where the default is not empty (id, context) an
\* empty or null field of the payload has been replaced by it.
C26_ChangesFullyPopulated ==
  Resolved =>
    \A n \in 1..Len(optimizationResult[1].detailedChanges.v) :
      LET change == optimizationResult[1].detailedChanges.v[n]
      IN /\ \A name \in {idName, originalTextName, modifiedTextName, contextName} :
              Get(change, name).t = "string"
         /\ Truthy(Get(change, idName))
         /\ Truthy(Get(change, contextName))
         /\ Truthy(Get(change, changeTypeName))
         /\ Get(change, keywordsName).t = "array"

\* C27 (as stated): the ids of the changes of the detailedChanges resolved
\* with are pairwise distinct.
C27_IdsPairwiseDistinct ==
  Resolved =>
    LET detailedChanges == optimizationResult[1].detailedChanges.v
    IN \A i, j \in 1..Len(detailedChanges) :
         i # j => ~StrictEquals(Get(detailedChanges[i], idName),
                                Get(detailedChanges[j], idName))

\* C28 (as stated): the originalContent the page hands to generateModifiedPDF
\* is the resume text optimizeWithKeywords was called with.
C28_ResumeTextHandedOver ==
  generateModifiedPDFCall # null =>
    StrictEquals(generateModifiedPDFCall[1].originalContent, JString(resumeText))

====
